---------------------------- MODULE Spec2Model ----------------------------
(***************************************************************************)
(* PhotoSpeak: the association store (photo id -> ordered audio clips),    *)
(* its persistence to the localStorage slot 'audioAssociations', the       *)
(* legacy-format migration, the preload bridge and the main-process blob   *)
(* handlers that store audio files.                                        *)
(*                                                                         *)
(* Strings are sequences of one-character strings.  JavaScript values are  *)
(* tagged records, objects are ordered sequences of key/value pairs (key   *)
(* order is what JSON.stringify emits).                                    *)
(***************************************************************************)
EXTENDS Integers, Sequences, FiniteSets, TLC

(* ------------------------------ bounds --------------------------------- *)
\* largest value Date.now() takes
MaxClock == 2
\* number of store calls (attachAudio / saveRecording) started
MaxCalls == 2
\* number of clips in the Map plus calls in flight
MaxClips == 2
\* number of application restarts explored
MaxRestarts == 1
\* Audio elements created plus playClip calls in flight
MaxAudios == 2
\* photos:* IPC calls started
MaxRequests == 4
\* MediaRecorder objects created plus getUserMedia calls pending
MaxRecorders == 2
\* AudioPanel instances mounted
MaxMounts == 2
\* seconds the recording timer counts
MaxRecordingTime == 1
\* requests the window's session filter has seen
MaxWebRequests == 2

(* --------------------------- strings and values ------------------------ *)
Digits == <<"0", "1", "2", "3", "4", "5", "6", "7", "8", "9">>

RECURSIVE NatToStr(_)
\* `${n}` for a non-negative integer
NatToStr(n) ==
  IF n < 10 THEN <<Digits[n + 1]>>
  ELSE NatToStr(n \div 10) \o <<Digits[(n % 10) + 1]>>

Str(s) == [t |-> "str", s |-> s, n |-> 0]
Num(n) == [t |-> "num", s |-> <<>>, n |-> n]
Undefined == [t |-> "undef", s |-> <<>>, n |-> 0]
Null == [t |-> "null", s |-> <<>>, n |-> 0]

\* a value interpolated into a template literal
TemplateStr(v) ==
  CASE v.t = "str" -> v.s
    [] v.t = "num" -> NatToStr(v.n)
    [] v.t = "null" -> <<"n", "u", "l", "l">>
    [] OTHER -> <<"u", "n", "d", "e", "f", "i", "n", "e", "d">>

\* truthiness of a value (value.id || ..., if (!sourcePath))
Truthy(v) ==
  CASE v.t = "str" -> v.s # <<>>
    [] v.t = "num" -> v.n # 0
    [] OTHER -> FALSE

\* obj[k]: the value of property k, undefined when the object has none
Field(obj, k) ==
  IF \E i \in 1..Len(obj) : obj[i].k = k
  THEN obj[CHOOSE i \in 1..Len(obj) : obj[i].k = k].v
  ELSE Undefined

HasField(obj, k) == \E i \in 1..Len(obj) : obj[i].k = k

\* { ...obj, k: v }: k keeps its position when obj has it, else goes last
SpreadWith(obj, k, v) ==
  IF HasField(obj, k)
  THEN [i \in 1..Len(obj) |-> IF obj[i].k = k THEN [k |-> k, v |-> v] ELSE obj[i]]
  ELSE Append(obj, [k |-> k, v |-> v])

\* s without its i-th element
RemoveAt(s, i) == SubSeq(s, 1, i - 1) \o SubSeq(s, i + 1, Len(s))

(* ------------------------------ inputs --------------------------------- *)
P1 == <<"p", "1">>
P2 == <<"a", "/", "b">>
PhotoIds == {P1, P2}

\* Math.random().toString(36).slice(2, 9)
RandomSuffixes == {<<"k">>, <<"z">>}

\* files the picker can return
SrcA == <<"/", "t", "/", "a", ".", "m", "4", "a">>
SourcePaths == {SrcA}

\* recordings handed to saveRecording: base64 payload and durationSecs
\* (optional)
Takes == {[bytes |-> <<"r", "1">>, duration |-> Num(5)],
          [bytes |-> <<"r", "2">>, duration |-> Undefined]}


(* --------------------- main process: blob handlers --------------------- *)
\* path.join(app.getPath('userData'), 'audio')
AudioDir == <<"/", "u", "/", "a", "u", "d", "i", "o">>

\* the i-th argument an IPC handler receives: undefined when not forwarded
Arg(args, i) == IF i <= Len(args) THEN args[i] ELSE Undefined

\* mutant: replace without the g flag, only the first '/' is replaced
SanitizePhotoIdFirstOnly(photoId) ==
  [i \in 1..Len(photoId) |->
     IF photoId[i] = "/" /\ \A j \in 1..(i - 1) : photoId[j] # "/"
     THEN "_" ELSE photoId[i]]

\* photoId.replace(/\//g, '_')
SanitizePhotoId(photoId) ==
  [i \in 1..Len(photoId) |-> IF photoId[i] = "/" THEN "_" ELSE photoId[i]]

LastIndexOf(s, ch) ==
  IF \E i \in 1..Len(s) : s[i] = ch
  THEN CHOOSE i \in 1..Len(s) : s[i] = ch /\ \A j \in (i + 1)..Len(s) : s[j] # ch
  ELSE 0

\* path.extname: from the last '.' of the last path segment, '' when the
\* segment has no '.' or only a leading one
ExtName(p) ==
  LET slash == LastIndexOf(p, "/")
      dot == LastIndexOf(p, ".")
  IN IF dot = 0 \/ dot <= slash + 1 THEN <<>> ELSE SubSeq(p, dot, Len(p))

\* path.join(audioDir, name) for a name without separators
PathJoin(dir, name) == dir \o <<"/">> \o name

WebmExt == <<".", "w", "e", "b", "m">>

\* ipcMain.handle('audio:copyToStorage'): destination of the copy
CopyToStorageDest(args) ==
  LET sourcePath == Arg(args, 1)
      photoId == Arg(args, 2)
      clipId == Arg(args, 3)
      safePhotoId == SanitizePhotoId(TemplateStr(photoId))
      ext == ExtName(TemplateStr(sourcePath))
  IN PathJoin(AudioDir, safePhotoId \o <<"_">> \o TemplateStr(clipId) \o ext)

\* ipcMain.handle('audio:saveRecording'): destination of the write
SaveRecordingDest(args) ==
  LET photoId == Arg(args, 1)
      clipId == Arg(args, 3)
      safePhotoId == SanitizePhotoId(TemplateStr(photoId))
  IN PathJoin(AudioDir, safePhotoId \o <<"_">> \o TemplateStr(clipId) \o WebmExt)

\* mutant: the handler returns the destination without writing the file
WriteFileSkipped(files, dest, bytes) == files

\* fs.copyFileSync / fs.writeFileSync: the file at dest now holds bytes
WriteFile(files, dest, bytes) ==
  [p \in DOMAIN files \cup {dest} |-> IF p = dest THEN bytes ELSE files[p]]

\* buffer.toString('base64'), written symbolically
ToBase64(bytes) == <<"b", "6", "4", "(">> \o bytes \o <<")">>

\* mutant: path.extname(filePath).slice(1) without the || 'webm'
LoadFileTagNoDefault(filePath) ==
  LET ext == ExtName(filePath)
  IN IF ext = <<>> THEN <<>> ELSE Tail(ext)

\* audio:loadFile: path.extname(filePath).slice(1) || 'webm'
LoadFileTag(filePath) ==
  LET ext == ExtName(filePath)
  IN IF Len(ext) <= 1 THEN <<"w", "e", "b", "m">> ELSE Tail(ext)

DataAudio == <<"d", "a", "t", "a", ":", "a", "u", "d", "i", "o", "/">>
Base64Mark == <<";", "b", "a", "s", "e", "6", "4", ",">>

\* ipcMain.handle('audio:loadFile'): the data URL of the file, null when
\* readFileSync throws (no such file, or not readable)
LoadFileResult(files, filePath, readable) ==
  IF filePath \notin DOMAIN files \/ ~readable
  THEN Null
  ELSE Str(DataAudio \o LoadFileTag(filePath) \o Base64Mark \o ToBase64(files[filePath]))

(* ----------------------- preload bridge (audioAPI) --------------------- *)
\* copyToStorage: what ipcRenderer.invoke forwards to the main process
BridgeCopyToStorage(sourcePath, photoId, clipId) ==
  [channel |-> "audio:copyToStorage", args |-> <<Str(sourcePath), Str(photoId)>>]

\* saveRecording: what ipcRenderer.invoke forwards to the main process
BridgeSaveRecording(photoId, base64Audio, clipId) ==
  [channel |-> "audio:saveRecording", args |-> <<Str(photoId), Str(base64Audio)>>]

(* --------------------------- association store ------------------------- *)
\* mutant: attachAudio tests the picker's answer with === undefined
SelectFileCancelledOnUndefined(sourcePath) == sourcePath.t = "undef"

\* attachAudio: if (!sourcePath) return null
SelectFileCancelled(sourcePath) == ~Truthy(sourcePath)

\* `${Date.now()}-${Math.random().toString(36).slice(2, 9)}`
ClipId(ms, rnd) == NatToStr(ms) \o <<"-">> \o rnd

\* `migrated-${Date.now()}-${Math.random().toString(36).slice(2, 9)}`
MigratedId(ms, rnd) ==
  <<"m", "i", "g", "r", "a", "t", "e", "d", "-">> \o NatToStr(ms) \o <<"-">> \o rnd

\* the Map audioAssociations: a sequence of [key, clips] in insertion order
MapHas(m, key) == \E i \in 1..Len(m) : m[i].key = key

MapGet(m, key) == m[CHOOSE i \in 1..Len(m) : m[i].key = key].clips

MapSet(m, key, clips) ==
  IF MapHas(m, key)
  THEN [i \in 1..Len(m) |-> IF m[i].key = key THEN [key |-> key, clips |-> clips] ELSE m[i]]
  ELSE Append(m, [key |-> key, clips |-> clips])

MapDelete(m, key) == SelectSeq(m, LAMBDA e : e.key # key)

\* audioAssociations.value.get(photoId) || []
GetClipsFor(m, photoId) == IF MapHas(m, photoId) THEN MapGet(m, photoId) ELSE <<>>

\* the object literal built by attachAudio
AttachAssociation(clipId, photoId, storedPath, ms) ==
  << [k |-> "id", v |-> Str(clipId)],
     [k |-> "photoId", v |-> Str(photoId)],
     [k |-> "audioPath", v |-> Str(storedPath)],
     [k |-> "createdAt", v |-> Num(ms)] >>

\* mutant: the object literal with id and photoId swapped
RecordingAssociationSwapped(clipId, photoId, storedPath, ms, durationSecs) ==
  << [k |-> "id", v |-> Str(photoId)],
     [k |-> "photoId", v |-> Str(clipId)],
     [k |-> "audioPath", v |-> Str(storedPath)],
     [k |-> "createdAt", v |-> Num(ms)],
     [k |-> "duration", v |-> durationSecs] >>

\* the object literal built by saveRecording
RecordingAssociation(clipId, photoId, storedPath, ms, durationSecs) ==
  << [k |-> "id", v |-> Str(clipId)],
     [k |-> "photoId", v |-> Str(photoId)],
     [k |-> "audioPath", v |-> Str(storedPath)],
     [k |-> "createdAt", v |-> Num(ms)],
     [k |-> "duration", v |-> durationSecs] >>

\* mutant: set(photoId, [association]), the new clip replaces the list
AppendAssociationReplaces(m, photoId, association) ==
  MapSet(m, photoId, <<association>>)

\* mutant: the existing clips with the id of the new one are dropped before
\* it is added (set(photoId, [...existing.filter(c => c.id !== id), association]))
AppendAssociationUpsert(m, photoId, association) ==
  MapSet(m, photoId,
         Append(SelectSeq(GetClipsFor(m, photoId),
                          LAMBDA c : Field(c, "id") # Field(association, "id")),
                association))

\* audioAssociations.value.set(photoId, [...existing, association])
AppendAssociation(m, photoId, association) ==
  MapSet(m, photoId, Append(GetClipsFor(m, photoId), association))

\* mutant: clips.filter(c => c.id === clipId)
FilterClipsInverted(clips, clipId) ==
  SelectSeq(clips, LAMBDA c : Field(c, "id") = Str(clipId))

\* clips.filter(c => c.id !== clipId)
FilterClips(clips, clipId) == SelectSeq(clips, LAMBDA c : Field(c, "id") # Str(clipId))

\* mutant: the filtered list is always set, also when it is empty
RemoveAudioMapKeepsKey(m, photoId, clipId) ==
  IF ~MapHas(m, photoId) THEN m
  ELSE MapSet(m, photoId,
              SelectSeq(MapGet(m, photoId), LAMBDA c : Field(c, "id") # Str(clipId)))

\* mutant: clips.splice(clips.findIndex(c => c.id === clipId), 1), which
\* removes the last clip when findIndex returns -1
RemoveAudioMapSplice(m, photoId, clipId) ==
  IF ~MapHas(m, photoId) THEN m
  ELSE LET clips == MapGet(m, photoId)
           hits == {j \in 1..Len(clips) : Field(clips[j], "id") = Str(clipId)}
           at == IF hits = {} THEN Len(clips)
                 ELSE CHOOSE j \in hits : \A h \in hits : j <= h
           spliced == RemoveAt(clips, at)
       IN IF Len(spliced) = 0 THEN MapDelete(m, photoId)
          ELSE MapSet(m, photoId, spliced)

\* mutant: removeAudio as the single-clip store has it, delete(photoId)
RemoveAudioMapDeletesEntry(m, photoId, clipId) ==
  IF ~MapHas(m, photoId) THEN m ELSE MapDelete(m, photoId)

\* removeAudio: the map it leaves
RemoveAudioMap(m, photoId, clipId) ==
  IF ~MapHas(m, photoId) THEN m
  ELSE LET filtered == FilterClips(MapGet(m, photoId), clipId)
       IN IF Len(filtered) = 0 THEN MapDelete(m, photoId)
          ELSE MapSet(m, photoId, filtered)

\* mutant: removeAudio without its saveAssociations() call
RemoveAudioNeverSaves(m, photoId) == FALSE

\* removeAudio reaches saveAssociations unless it returned at `if (!clips)`
RemoveAudioSaves(m, photoId) == MapHas(m, photoId)

(* ------------------------------ persistence ---------------------------- *)
\* JSON.stringify of an object: properties whose value is undefined are
\* omitted, the others keep their order
StringifyObject(obj) == SelectSeq(obj, LAMBDA kv : kv.v.t # "undef")

\* JSON.stringify(Array.from(map.entries())): the stored document
Stringify(m) ==
  [kind |-> "doc",
   entries |-> [i \in 1..Len(m) |->
      [key |-> m[i].key, arr |-> TRUE,
       items |-> [j \in 1..Len(m[i].clips) |-> StringifyObject(m[i].clips[j])]]]]

\* the slot when localStorage has no item, and when it holds an unparsable one
AbsentSlot == [kind |-> "absent", entries |-> <<>>]
CorruptSlot == [kind |-> "corrupt", entries |-> <<>>]

\* mutant: an array value is also wrapped as if it were a single object,
\* keeping its first clip only
MigrateEntryFirstOnly(m, entry, ms, rnd) ==
  LET value == entry.items[1]
      id == IF Truthy(Field(value, "id")) THEN Field(value, "id")
            ELSE Str(MigratedId(ms, rnd))
  IN MapSet(m, entry.key, <<SpreadWith(value, "id", id)>>)

\* one [photoId, value] entry of the parsed document put into migratedMap
MigrateEntry(m, entry, ms, rnd) ==
  IF entry.arr
  THEN MapSet(m, entry.key, entry.items)
  ELSE LET value == entry.items[1]
           id == IF Truthy(Field(value, "id")) THEN Field(value, "id")
                 ELSE Str(MigratedId(ms, rnd))
       IN MapSet(m, entry.key, <<SpreadWith(value, "id", id)>>)

RECURSIVE MigrateFrom(_, _, _, _, _)
\* the for-of loop of loadAssociations from entry i on
MigrateFrom(m, entries, i, ms, rnds) ==
  IF i > Len(entries) THEN m
  ELSE MigrateFrom(MigrateEntry(m, entries[i], ms, rnds[i]), entries, i + 1, ms, rnds)

\* mutant: loadAssociations without its try/catch
LoadAssociationsThrowsOnParse(slot) == slot.kind = "corrupt"

\* loadAssociations: whether an exception leaves the call; the whole body
\* is inside try/catch and the catch only logs
LoadAssociationsThrows(slot) == FALSE

\* mutant: the for-of loop misses the first entry of the document
LoadedMapFromSecond(m, slot, ms, rnds) ==
  IF slot.kind = "doc" THEN MigrateFrom(<<>>, slot.entries, 2, ms, rnds) ELSE m

\* loadAssociations: the map after the call (unchanged when the item is
\* absent or JSON.parse throws)
LoadedMap(m, slot, ms, rnds) ==
  IF slot.kind = "doc" THEN MigrateFrom(<<>>, slot.entries, 1, ms, rnds) ELSE m

\* mutant: loadAssociations without its saveAssociations() call
LoadedSlotNotRewritten(m, slot, ms, rnds) == slot

\* loadAssociations: the slot after the call (rewritten after a parse)
LoadedSlot(m, slot, ms, rnds) ==
  IF slot.kind = "doc" THEN Stringify(LoadedMap(m, slot, ms, rnds)) ELSE slot


(* ------------------- documents found at first launch ------------------- *)
\* the object literal the single-clip store wrote for a recording (no id)
LegacyRecording(photoId, audioPath, ms, durationSecs) ==
  << [k |-> "photoId", v |-> Str(photoId)],
     [k |-> "audioPath", v |-> Str(audioPath)],
     [k |-> "createdAt", v |-> Num(ms)],
     [k |-> "duration", v |-> durationSecs] >>

\* JSON.stringify(Array.from(map.entries())) of the single-clip store
LegacyStringify(pairs) ==
  [kind |-> "doc",
   entries |-> [i \in 1..Len(pairs) |->
      [key |-> pairs[i].key, arr |-> FALSE,
       items |-> <<StringifyObject(pairs[i].value)>>]]]

OldWav == <<"/", "a", ".", "w", "a", "v">>

LegacyDocOne ==
  LegacyStringify(<< [key |-> P1, value |-> LegacyRecording(P1, OldWav, 1000, Num(4))] >>)

\* a fresh install, an unparsable item, a document of the single-clip store
InitialSlots == {AbsentSlot, CorruptSlot, LegacyDocOne}

\* the audio files the entries of a document name
RECURSIVE FilesOf(_, _)
FilesOf(entries, i) ==
  IF i > Len(entries) THEN <<>>
  ELSE [p \in {Field(entries[i].items[j], "audioPath").s : j \in 1..Len(entries[i].items)}
          \cup DOMAIN FilesOf(entries, i + 1) |->
          IF p \in DOMAIN FilesOf(entries, i + 1) THEN FilesOf(entries, i + 1)[p]
          ELSE <<"o", "l", "d">>]

RECURSIVE ClipCount(_)
\* number of clips in the Map
ClipCount(m) == IF m = <<>> THEN 0 ELSE Len(Head(m).clips) + ClipCount(Tail(m))

(* -------------------------------- state -------------------------------- *)
VARIABLES
  audioAssociations,  \* the store's Map, a sequence of [key, clips]
  localStorage,       \* the item 'audioAssociations'
  disk,               \* files of the main process: path -> bytes
  tasks,              \* attachAudio / saveRecording calls in flight
  now,                \* Date.now()
  phase,              \* "boot": store not constructed yet, "ready": constructed
  calls,              \* store calls started so far
  restarts,           \* restarts so far
  last,               \* history: the last store operation that completed
  appended,           \* history: per photo, the calls appended since it had no clips
  selectedPhoto,      \* the store's selectedPhoto: Null or Str(photo id)
  panels,             \* the refs of each AudioPanel instance mounted so far
  userMedia,          \* getUserMedia calls of startRecording not yet settled
  recorders,          \* the MediaRecorder objects created so far
  plays,              \* playClip calls in flight
  audios,             \* the Audio elements created so far
  app,                \* App.vue refs and the store's album and photo refs
  requests,           \* photos:* IPC calls in flight, with their helper process
  system,             \* Photos authorization and the helper binary
  webRequests         \* history: the requests the window made, as the filter settled them

\* the association store, its slot and the blob handlers
storeVars == <<audioAssociations, localStorage, disk, tasks, now, phase, calls,
               restarts, last, appended>>

\* the detail view: selection, AudioPanel, its recorders and players
panelVars == <<selectedPhoto, panels, userMedia, recorders, plays, audios>>

\* the album and photo browser and the helper
appVars == <<app, requests, system, webRequests>>

vars == <<storeVars, panelVars, appVars>>

NoTask ==
  [kind |-> "none", pc |-> "none", photoId |-> <<>>, clipId |-> <<>>,
   bytes |-> <<>>, duration |-> Undefined,
   msg |-> [channel |-> "none", args |-> <<>>], storedPath |-> <<>>]

\* op: the operation; before: the Map before it ("restart": at exit,
\* "reload": at the exit before this launch); found: the item a load found
Done(op, photoId, clipId, before) ==
  [op |-> op, photoId |-> photoId, clipId |-> clipId, before |-> before,
   found |-> AbsentSlot]

FreshLog == [p \in PhotoIds |-> [ok |-> TRUE, calls |-> <<>>]]

\* App.vue before onMounted ran, the store's refs as constructed; error
\* "" stands for null; started counts the photos:* calls; history: failed
\* is the message of the first rejected call that onMounted awaited,
\* lastLoad the number of the loadPhotos call made last, photosFor the
\* albumId argument of the loadPhotos call that assigned the photos list,
\* cleared whether clearSelection() ran after the selectPhoto call made last
AppCreated ==
  [error |-> "", loading |-> TRUE, pc |-> "created",
   albums |-> <<>>, photos |-> <<>>, selectedAlbumId |-> Null,
   loadingPhotos |-> FALSE, loadingDetail |-> FALSE,
   started |-> 0, failed |-> "",
   lastLoad |-> 0, photosFor |-> Undefined, cleared |-> FALSE]

\* Photos access granted, the helper binary built
SystemReady == [auth |-> "authorized", helperBuilt |-> TRUE]

\* no detail view open
PanelIdle ==
  /\ selectedPhoto = Null
  /\ panels = <<>>
  /\ userMedia = <<>>
  /\ recorders = <<>>
  /\ plays = <<>>
  /\ audios = <<>>

\* the browser not started
AppIdle ==
  /\ app = AppCreated
  /\ requests = <<>>
  /\ system = SystemReady
  /\ webRequests = <<>>

Init ==
  /\ audioAssociations = <<>>
  /\ localStorage \in InitialSlots
  /\ disk = FilesOf(localStorage.entries, 1)
  /\ tasks = <<>>
  /\ now = 1
  /\ phase = "boot"
  /\ calls = 0
  /\ restarts = 0
  /\ last = Done("init", <<>>, <<>>, <<>>)
  /\ appended = FreshLog
  /\ PanelIdle
  /\ AppIdle

\* the clock advances
Tick ==
  /\ now < MaxClock
  /\ now' = now + 1
  /\ UNCHANGED <<audioAssociations, localStorage, disk, tasks, phase, calls,
                 restarts, last, appended>>
  /\ UNCHANGED <<panelVars, appVars>>

\* store construction: loadAssociations(); an exception leaving it would
\* end the construction of the store ("crashed")
LoadAssociations ==
  /\ phase = "boot"
  /\ IF LoadAssociationsThrows(localStorage)
     THEN /\ phase' = "crashed"
          /\ UNCHANGED <<audioAssociations, localStorage>>
     ELSE /\ \E rnds \in [1..Len(localStorage.entries) -> RandomSuffixes] :
               /\ audioAssociations' = LoadedMap(audioAssociations, localStorage, now, rnds)
               /\ localStorage' = LoadedSlot(audioAssociations, localStorage, now, rnds)
          /\ phase' = "ready"
  /\ last' = IF last.op = "restart"
             THEN [Done("reload", <<>>, <<>>, last.before) EXCEPT !.found = localStorage]
             ELSE [Done("load", <<>>, <<>>, <<>>) EXCEPT !.found = localStorage]
  /\ appended' = [p \in PhotoIds |->
                    [ok |-> ~MapHas(audioAssociations', p), calls |-> <<>>]]
  /\ UNCHANGED <<disk, tasks, now, calls, restarts>>
  /\ UNCHANGED <<panelVars, appVars>>

\* attachAudio(photoId) up to its first await: the picker is open
AttachAudio(photoId) ==
  /\ phase = "ready"
  /\ calls < MaxCalls
  /\ ClipCount(audioAssociations) + Len(tasks) < MaxClips
  /\ calls' = calls + 1
  /\ tasks' = Append(tasks, [NoTask EXCEPT !.kind = "attach", !.pc = "selectFile",
                                           !.photoId = photoId])
  /\ UNCHANGED <<audioAssociations, localStorage, disk, now, phase, restarts,
                 last, appended>>
  /\ UNCHANGED <<panelVars, appVars>>

\* audio:selectFile answers: null returns null, a path is sent on to
\* copyToStorage with a fresh clipId
SelectFileReply(i, sourcePath, rnd) ==
  /\ i \in 1..Len(tasks)
  /\ tasks[i].pc = "selectFile"
  /\ IF SelectFileCancelled(sourcePath)
     THEN /\ tasks' = RemoveAt(tasks, i)
          /\ last' = Done("attachCancelled", tasks[i].photoId, <<>>, audioAssociations)
     ELSE LET clipId == ClipId(now, rnd)
          IN /\ tasks' = [tasks EXCEPT ![i] =
                   [@ EXCEPT !.pc = "copyToStorage", !.clipId = clipId,
                             !.bytes = sourcePath.s,
                             !.msg = BridgeCopyToStorage(sourcePath.s, tasks[i].photoId, clipId)]]
             /\ UNCHANGED last
  /\ UNCHANGED <<audioAssociations, localStorage, disk, now, phase, calls,
                 restarts, appended>>
  /\ UNCHANGED <<panelVars, appVars>>

\* the main process handles audio:copyToStorage
MainCopyToStorage(i) ==
  /\ i \in 1..Len(tasks)
  /\ tasks[i].pc = "copyToStorage"
  /\ LET destPath == CopyToStorageDest(tasks[i].msg.args)
     IN /\ disk' = WriteFile(disk, destPath, TemplateStr(Arg(tasks[i].msg.args, 1)))
        /\ tasks' = [tasks EXCEPT ![i] = [@ EXCEPT !.pc = "resume", !.storedPath = destPath]]
  /\ UNCHANGED <<audioAssociations, localStorage, now, phase, calls, restarts,
                 last, appended>>
  /\ UNCHANGED <<panelVars, appVars>>

\* attachAudio after copyToStorage resolved
AttachResume(i) ==
  /\ i \in 1..Len(tasks)
  /\ tasks[i].kind = "attach" /\ tasks[i].pc = "resume"
  /\ LET t == tasks[i]
         association == AttachAssociation(t.clipId, t.photoId, t.storedPath, now)
     IN /\ audioAssociations' = AppendAssociation(audioAssociations, t.photoId, association)
        /\ localStorage' = Stringify(audioAssociations')
        /\ last' = Done("attach", t.photoId, t.clipId, audioAssociations)
        /\ appended' = [appended EXCEPT ![t.photoId].calls =
                          Append(@, [kind |-> "attach", clipId |-> t.clipId,
                                     duration |-> Undefined])]
  /\ tasks' = RemoveAt(tasks, i)
  /\ UNCHANGED <<disk, now, phase, calls, restarts>>
  /\ UNCHANGED <<panelVars, appVars>>

\* saveRecording(photoId, base64Audio, durationSecs) up to its await, as
\* the store executes it inside its caller's step
SaveRecordingCall(photoId, base64Audio, durationSecs, rnd) ==
  /\ phase = "ready"
  /\ calls < MaxCalls
  /\ ClipCount(audioAssociations) + Len(tasks) < MaxClips
  /\ calls' = calls + 1
  /\ LET clipId == ClipId(now, rnd)
     IN tasks' = Append(tasks,
          [NoTask EXCEPT !.kind = "record", !.pc = "saveRecording",
                         !.photoId = photoId, !.clipId = clipId,
                         !.bytes = base64Audio, !.duration = durationSecs,
                         !.msg = BridgeSaveRecording(photoId, base64Audio, clipId)])
  /\ UNCHANGED <<audioAssociations, localStorage, disk, now, phase, restarts,
                 last, appended>>

\* saveRecording called on the store
SaveRecording(photoId, base64Audio, durationSecs, rnd) ==
  /\ SaveRecordingCall(photoId, base64Audio, durationSecs, rnd)
  /\ UNCHANGED <<panelVars, appVars>>

\* the main process handles audio:saveRecording
MainSaveRecording(i) ==
  /\ i \in 1..Len(tasks)
  /\ tasks[i].pc = "saveRecording"
  /\ LET destPath == SaveRecordingDest(tasks[i].msg.args)
     IN /\ disk' = WriteFile(disk, destPath, TemplateStr(Arg(tasks[i].msg.args, 2)))
        /\ tasks' = [tasks EXCEPT ![i] = [@ EXCEPT !.pc = "resume", !.storedPath = destPath]]
  /\ UNCHANGED <<audioAssociations, localStorage, now, phase, calls, restarts,
                 last, appended>>
  /\ UNCHANGED <<panelVars, appVars>>

\* saveRecording after the main process resolved
SaveRecordingResume(i) ==
  /\ i \in 1..Len(tasks)
  /\ tasks[i].kind = "record" /\ tasks[i].pc = "resume"
  /\ LET t == tasks[i]
         association ==
           RecordingAssociation(t.clipId, t.photoId, t.storedPath, now, t.duration)
     IN /\ audioAssociations' = AppendAssociation(audioAssociations, t.photoId, association)
        /\ localStorage' = Stringify(audioAssociations')
        /\ last' = Done("record", t.photoId, t.clipId, audioAssociations)
        /\ appended' = [appended EXCEPT ![t.photoId].calls =
                          Append(@, [kind |-> "record", clipId |-> t.clipId,
                                     duration |-> t.duration])]
  /\ tasks' = RemoveAt(tasks, i)
  /\ UNCHANGED <<disk, now, phase, calls, restarts>>
  /\ UNCHANGED <<panelVars, appVars>>

\* the copy or the write throws in the main process: the call rejects
StoreFails(i) ==
  /\ i \in 1..Len(tasks)
  /\ tasks[i].pc \in {"copyToStorage", "saveRecording"}
  /\ tasks' = RemoveAt(tasks, i)
  /\ last' = Done("storeFailed", tasks[i].photoId, tasks[i].clipId, audioAssociations)
  /\ UNCHANGED <<audioAssociations, localStorage, disk, now, phase, calls,
                 restarts, appended>>
  /\ UNCHANGED <<panelVars, appVars>>

\* removeAudio(photoId, clipId), as the store executes it inside its
\* caller's step
RemoveAudioCall(photoId, clipId) ==
  /\ phase = "ready"
  /\ audioAssociations' = RemoveAudioMap(audioAssociations, photoId, clipId)
  /\ localStorage' = IF RemoveAudioSaves(audioAssociations, photoId)
                     THEN Stringify(audioAssociations')
                     ELSE localStorage
  /\ last' = Done("remove", photoId, clipId, audioAssociations)
  /\ appended' = [appended EXCEPT ![photoId] =
                    IF ~MapHas(audioAssociations', photoId)
                    THEN [ok |-> TRUE, calls |-> <<>>]
                    ELSE IF audioAssociations' # audioAssociations
                         THEN [ok |-> FALSE, calls |-> <<>>]
                         ELSE @]
  /\ UNCHANGED <<disk, tasks, now, phase, calls, restarts>>

\* removeAudio called on the store
RemoveAudio(photoId, clipId) ==
  /\ RemoveAudioCall(photoId, clipId)
  /\ UNCHANGED <<panelVars, appVars>>

\* the application exits and is started again: memory is lost, the slot
\* and the files stay
Restart ==
  /\ phase = "ready"
  /\ restarts < MaxRestarts
  /\ restarts' = restarts + 1
  /\ audioAssociations' = <<>>
  /\ tasks' = <<>>
  /\ phase' = "boot"
  /\ last' = Done("restart", <<>>, <<>>, audioAssociations)
  /\ appended' = FreshLog
  /\ UNCHANGED <<localStorage, disk, now, calls>>
  /\ UNCHANGED <<panelVars, appVars>>

\* ids of the clips in the Map
ClipIdsOf(m) ==
  UNION {{Field(m[i].clips[j], "id").s : j \in 1..Len(m[i].clips)} : i \in 1..Len(m)}

\* an id no clip has
Nonexistent == <<"n", "o", "n", "e">>

\* a step of the association store or of its handlers
StoreStep ==
  \/ Tick
  \/ LoadAssociations
  \/ \E p \in PhotoIds : AttachAudio(p)
  \/ \E i \in 1..Len(tasks), src \in {Null} \cup {Str(f) : f \in SourcePaths},
        rnd \in RandomSuffixes : SelectFileReply(i, src, rnd)
  \/ \E i \in 1..Len(tasks) : MainCopyToStorage(i)
  \/ \E i \in 1..Len(tasks) : AttachResume(i)
  \/ \E p \in PhotoIds, take \in Takes, rnd \in RandomSuffixes :
        SaveRecording(p, take.bytes, take.duration, rnd)
  \/ \E i \in 1..Len(tasks) : MainSaveRecording(i)
  \/ \E i \in 1..Len(tasks) : SaveRecordingResume(i)
  \/ \E i \in 1..Len(tasks) : StoreFails(i)
  \/ \E p \in PhotoIds, c \in ClipIdsOf(audioAssociations) \cup {Nonexistent} :
        RemoveAudio(p, c)
  \/ Restart

Next == StoreStep

Spec == Init /\ [][Next]_vars

(* ---------------------- AudioPanel: playing clips ---------------------- *)
\* the refs of a newly mounted AudioPanel; recordingInterval 0 stands for
\* null; timers: the interval timers of this instance that are running,
\* each named by the recorder it was set for; lastPlay is history: how the
\* last playClip call of this instance ended
NewPanel ==
  [playingClipId |-> Null, audioRef |-> 0, audioSources |-> <<>>,
   isRecording |-> FALSE, recordingTime |-> 0, mediaRecorder |-> 0,
   recordingInterval |-> 0, timers |-> {},
   audioChunks |-> <<>>, lastPlay |-> "none"]

\* audioSources.has / get / set
SourcesHas(sources, clipId) == \E i \in 1..Len(sources) : sources[i].id = clipId
SourcesGet(sources, clipId) ==
  sources[CHOOSE i \in 1..Len(sources) : sources[i].id = clipId].src
SourcesSet(sources, clipId, src) ==
  IF SourcesHas(sources, clipId)
  THEN [i \in 1..Len(sources) |->
          IF sources[i].id = clipId THEN [id |-> clipId, src |-> src] ELSE sources[i]]
  ELSE Append(sources, [id |-> clipId, src |-> src])

\* audioSources.delete
SourcesDelete(sources, clipId) == SelectSeq(sources, LAMBDA e : e.id # clipId)

\* pauseClip() on the refs of a panel
PanelAfterPause(panel) ==
  IF panel.audioRef # 0 THEN [panel EXCEPT !.playingClipId = Null] ELSE panel

\* audioRef.value.pause() when audioRef.value is set
PauseAudioRef(els, panel) ==
  IF panel.audioRef = 0 THEN els
  ELSE [els EXCEPT ![panel.audioRef].playing = FALSE]

\* playClip from "const audio = new Audio(src)" to audio.play(), over the
\* Audio elements els; the element audioRef named before is not paused here
StartPlayback(k, clipId, src, els) ==
  /\ audios' = Append(els, [panel |-> k, clipId |-> clipId, src |-> src, playing |-> TRUE])
  /\ panels' = [panels EXCEPT ![k] =
       [@ EXCEPT !.audioRef = Len(audios) + 1, !.playingClipId = Str(clipId),
                 !.audioSources = SourcesSet(@, clipId, src),
                 !.lastPlay = "started"]]

\* the clips the mounted panel lists: selectedPhotoAudio
ListedClips ==
  IF selectedPhoto = Null THEN {}
  ELSE LET clips == GetClipsFor(audioAssociations, selectedPhoto.s)
       IN {clips[j] : j \in 1..Len(clips)}

\* the mounted AudioPanel instance, 0 when none is mounted
Mounted == IF selectedPhoto = Null THEN 0 ELSE Len(panels)

\* a click on the play button of a clip that is not the playing one:
\* toggleClip -> playClip: the current element is paused, then the await;
\* with the source cached the rest of playClip follows in the same turn
PlayClip(clip) ==
  LET k == Mounted
      clipId == Field(clip, "id").s
  IN /\ k # 0
     /\ ~panels[k].isRecording
     /\ panels[k].playingClipId # Str(clipId)
     /\ Len(audios) + Len(plays) < MaxAudios
     /\ IF SourcesHas(panels[k].audioSources, clipId)
        THEN /\ StartPlayback(k, clipId, SourcesGet(panels[k].audioSources, clipId),
                              PauseAudioRef(audios, panels[k]))
             /\ UNCHANGED plays
        ELSE /\ audios' = PauseAudioRef(audios, panels[k])
             /\ plays' = Append(plays,
                   [panel |-> k, clipId |-> clipId,
                    audioPath |-> Field(clip, "audioPath").s,
                    pc |-> "loadFile", src |-> Null, read |-> "none"])
             /\ UNCHANGED panels
     /\ UNCHANGED <<selectedPhoto, userMedia, recorders, storeVars, appVars>>

\* a click on the pause button of the playing clip: toggleClip -> pauseClip
PauseClip ==
  LET k == Mounted
  IN /\ k # 0
     /\ ~panels[k].isRecording
     /\ panels[k].playingClipId # Null
     /\ \E clip \in ListedClips : Field(clip, "id") = panels[k].playingClipId
     /\ IF panels[k].audioRef # 0
        THEN /\ audios' = PauseAudioRef(audios, panels[k])
             /\ panels' = [panels EXCEPT ![k].playingClipId = Null]
        ELSE UNCHANGED <<audios, panels>>
     /\ UNCHANGED <<selectedPhoto, userMedia, recorders, plays, storeVars, appVars>>

\* the remove button of a listed clip: removeClip(clip)
RemoveClip(clip) ==
  LET k == Mounted
      clipId == Field(clip, "id").s
      playing == panels[k].playingClipId = Str(clipId)
  IN /\ k # 0
     /\ ~panels[k].isRecording
     /\ panels' = [panels EXCEPT ![k] =
           [(IF playing THEN PanelAfterPause(@) ELSE @)
              EXCEPT !.audioSources = SourcesDelete(@, clipId)]]
     /\ audios' = IF playing THEN PauseAudioRef(audios, panels[k]) ELSE audios
     /\ RemoveAudioCall(selectedPhoto.s, clipId)
     /\ UNCHANGED <<selectedPhoto, userMedia, recorders, plays, appVars>>

\* the main process handles audio:loadFile
MainLoadFile(i, readable) ==
  /\ i \in 1..Len(plays)
  /\ plays[i].pc = "loadFile"
  /\ plays' = [plays EXCEPT ![i] =
       [@ EXCEPT !.pc = "loaded",
                 !.src = LoadFileResult(disk, plays[i].audioPath, readable),
                 !.read = IF plays[i].audioPath \in DOMAIN disk /\ readable
                          THEN "ok" ELSE "failed"]]
  /\ UNCHANGED <<selectedPhoto, panels, userMedia, recorders, audios, storeVars, appVars>>

\* loadAudioSource and playClip after loadFile resolved
LoadFileResume(i) ==
  /\ i \in 1..Len(plays)
  /\ plays[i].pc = "loaded"
  /\ IF ~Truthy(plays[i].src)
     THEN /\ panels' = [panels EXCEPT ![plays[i].panel].lastPlay = "noSource"]
          /\ UNCHANGED audios
     ELSE StartPlayback(plays[i].panel, plays[i].clipId, plays[i].src.s, audios)
  /\ plays' = RemoveAt(plays, i)
  /\ UNCHANGED <<selectedPhoto, userMedia, recorders, storeVars, appVars>>

\* an Audio element plays to its end: onended
AudioEnded(a) ==
  /\ a \in 1..Len(audios)
  /\ audios[a].playing
  /\ audios' = [audios EXCEPT ![a].playing = FALSE]
  /\ panels' = [panels EXCEPT ![audios[a].panel].playingClipId = Null]
  /\ UNCHANGED <<selectedPhoto, userMedia, recorders, plays, storeVars, appVars>>

\* files picked for the clips of the photo whose detail view is open
MemoPath == <<"/", "t", ".", "d", "/", "m", "e", "m", "o">>

\* an index with a copy of a file without extension, a recording and a
\* copy of an .m4a file, as attachAudio and saveRecording leave them
PlaybackIndex ==
  LET id1 == ClipId(1, <<"k">>)
      id2 == ClipId(1, <<"z">>)
      id3 == ClipId(2, <<"k">>)
      c1 == AttachAssociation(id1, P1,
               CopyToStorageDest(BridgeCopyToStorage(MemoPath, P1, id1).args), 1)
      c2 == RecordingAssociation(id2, P1,
               SaveRecordingDest(BridgeSaveRecording(P1, <<"r", "1">>, id2).args), 1, Num(5))
      c3 == AttachAssociation(id3, P1,
               CopyToStorageDest(BridgeCopyToStorage(SrcA, P1, id3).args), 2)
  IN AppendAssociation(AppendAssociation(AppendAssociation(<<>>, P1, c1), P1, c2), P1, c3)

\* the files of PlaybackIndex as the handlers wrote them
PlaybackFiles ==
  WriteFile(WriteFile(WriteFile(<<>>,
     CopyToStorageDest(<<Str(MemoPath), Str(P1)>>), MemoPath),
     SaveRecordingDest(<<Str(P1), Str(<<"r", "1">>)>>), <<"r", "1">>),
     CopyToStorageDest(<<Str(SrcA), Str(P1)>>), SrcA)

\* the detail view of P1 is open over PlaybackIndex; at most one of the
\* files has been deleted outside the application
PlaybackInit ==
  /\ audioAssociations = PlaybackIndex
  /\ localStorage = Stringify(PlaybackIndex)
  /\ \E gone \in SUBSET DOMAIN PlaybackFiles :
        /\ Cardinality(gone) <= 1
        /\ disk = [f \in DOMAIN PlaybackFiles \ gone |-> PlaybackFiles[f]]
  /\ tasks = <<>>
  /\ now = 2
  /\ phase = "ready"
  /\ calls = 0
  /\ restarts = 0
  /\ last = Done("init", <<>>, <<>>, <<>>)
  /\ appended = FreshLog
  /\ selectedPhoto = Str(P1)
  /\ panels = <<NewPanel>>
  /\ userMedia = <<>>
  /\ recorders = <<>>
  /\ plays = <<>>
  /\ audios = <<>>
  /\ AppIdle

PlaybackNext ==
  \/ \E clip \in ListedClips : PlayClip(clip)
  \/ PauseClip
  \/ \E clip \in ListedClips : RemoveClip(clip)
  \/ \E i \in 1..Len(plays), readable \in BOOLEAN : MainLoadFile(i, readable)
  \/ \E i \in 1..Len(plays) : LoadFileResume(i)
  \/ \E a \in 1..Len(audios) : AudioEnded(a)

SpecPlayback == PlaybackInit /\ [][PlaybackNext]_vars

(* ---------------------- AudioPanel: recording clips -------------------- *)
\* stopRecording() on the refs of a panel: clearInterval stops the timer
\* recordingInterval names, and no other
PanelAfterStop(panel) ==
  IF panel.mediaRecorder # 0 /\ panel.isRecording
  THEN [panel EXCEPT !.isRecording = FALSE,
                     !.timers = @ \ {panel.recordingInterval},
                     !.recordingInterval = 0]
  ELSE panel

\* stopRecording(): mediaRecorder.value.stop()
RecordersAfterStop(recs, panel) ==
  IF panel.mediaRecorder # 0 /\ panel.isRecording
  THEN [recs EXCEPT ![panel.mediaRecorder].state = "stopping"]
  ELSE recs

\* clearSelection(): the detail view closes and its AudioPanel unmounts,
\* pausing its clip and stopping its recording
ClearSelection ==
  /\ selectedPhoto' = Null
  /\ IF Mounted = 0
     THEN UNCHANGED <<panels, recorders, audios>>
     ELSE /\ panels' = [panels EXCEPT ![Mounted] = PanelAfterStop(PanelAfterPause(@))]
          /\ audios' = PauseAudioRef(audios, panels[Mounted])
          /\ recorders' = RecordersAfterStop(recorders, panels[Mounted])

\* selectPhoto(photoId) has loaded the photo: the detail view opens with
\* a new AudioPanel
DetailShown(photoId) ==
  /\ selectedPhoto = Null
  /\ Len(panels) < MaxMounts
  /\ selectedPhoto' = Str(photoId)
  /\ panels' = Append(panels, NewPanel)
  /\ UNCHANGED <<userMedia, recorders, plays, audios, storeVars, appVars>>

\* PhotoDetail: the Back button
GoBack ==
  /\ selectedPhoto # Null
  /\ ClearSelection
  /\ UNCHANGED <<userMedia, plays, storeVars, appVars>>

\* the record button: startRecording up to its await; photo is history:
\* the photo selected at the click
StartRecording ==
  /\ Mounted # 0
  /\ ~panels[Mounted].isRecording
  /\ Len(userMedia) + Len(recorders) < MaxRecorders
  /\ userMedia' = Append(userMedia, [panel |-> Mounted, photo |-> selectedPhoto.s])
  /\ UNCHANGED <<selectedPhoto, panels, recorders, plays, audios, storeVars, appVars>>

\* what the microphone gives the n-th recorder
Recorded(n) == <<"r", Digits[n + 1]>>

\* getUserMedia resolved: the rest of startRecording; photo and savedFor
\* are history: the photo selected at the click, and the photo id the
\* recording was handed to the store with
UserMediaResolves(j) ==
  /\ j \in 1..Len(userMedia)
  /\ recorders' = Append(recorders,
        [panel |-> userMedia[j].panel, state |-> "recording",
         data |-> Recorded(Len(recorders) + 1), blob |-> <<>>, duration |-> 0,
         photo |-> userMedia[j].photo, savedFor |-> <<>>])
  /\ panels' = [panels EXCEPT ![userMedia[j].panel] =
        [@ EXCEPT !.mediaRecorder = Len(recorders) + 1, !.audioChunks = <<>>,
                  !.isRecording = TRUE, !.recordingTime = 0,
                  !.recordingInterval = Len(recorders) + 1,
                  !.timers = @ \cup {Len(recorders) + 1}]]
  /\ userMedia' = RemoveAt(userMedia, j)
  /\ UNCHANGED <<selectedPhoto, plays, audios, storeVars, appVars>>

\* getUserMedia rejected: the catch of startRecording
UserMediaRejects(j) ==
  /\ j \in 1..Len(userMedia)
  /\ userMedia' = RemoveAt(userMedia, j)
  /\ UNCHANGED <<selectedPhoto, panels, recorders, plays, audios, storeVars, appVars>>

\* a running interval timer of a panel fires: recordingTime.value++
RecordingSecond(k) ==
  /\ k \in 1..Len(panels)
  /\ panels[k].timers # {}
  /\ panels[k].recordingTime < MaxRecordingTime
  /\ panels' = [panels EXCEPT ![k].recordingTime = @ + 1]
  /\ UNCHANGED <<selectedPhoto, userMedia, recorders, plays, audios, storeVars, appVars>>

\* the Stop Recording button: stopRecording()
StopRecording ==
  /\ Mounted # 0
  /\ panels[Mounted].isRecording
  /\ panels' = [panels EXCEPT ![Mounted] = PanelAfterStop(@)]
  /\ recorders' = RecordersAfterStop(recorders, panels[Mounted])
  /\ UNCHANGED <<selectedPhoto, userMedia, plays, audios, storeVars, appVars>>

RECURSIVE Concat(_)
\* new Blob(chunks): the chunks one after the other
Concat(chunks) == IF chunks = <<>> THEN <<>> ELSE Head(chunks) \o Concat(Tail(chunks))

\* a stopped recorder delivers its data and fires onstop, which calls the
\* panel's saveRecording(blob, finalDuration) up to readAsDataURL; without
\* a selected photo that call returns at once
RecorderStopped(r) ==
  /\ r \in 1..Len(recorders)
  /\ recorders[r].state = "stopping"
  /\ LET k == recorders[r].panel
         chunks == Append(panels[k].audioChunks, recorders[r].data)
     IN /\ panels' = [panels EXCEPT ![k].audioChunks = chunks]
        /\ recorders' = [recorders EXCEPT ![r] =
              IF ~Truthy(selectedPhoto)
              THEN [@ EXCEPT !.state = "discarded"]
              ELSE [@ EXCEPT !.state = "reading", !.blob = Concat(chunks),
                             !.duration = panels[k].recordingTime]]
  /\ UNCHANGED <<selectedPhoto, userMedia, plays, audios, storeVars, appVars>>

\* reader.onloadend: the base64 part of the data URL goes to the store's
\* saveRecording with the id of the photo selected now; reading the id of
\* no photo throws
ReaderLoadEnd(r, rnd) ==
  /\ r \in 1..Len(recorders)
  /\ recorders[r].state = "reading"
  /\ IF selectedPhoto = Null
     THEN /\ recorders' = [recorders EXCEPT ![r].state = "threw"]
          /\ UNCHANGED storeVars
     ELSE /\ recorders' = [recorders EXCEPT ![r] =
                [@ EXCEPT !.state = "saving", !.savedFor = selectedPhoto.s]]
          /\ SaveRecordingCall(selectedPhoto.s, ToBase64(recorders[r].blob),
                               Num(recorders[r].duration), rnd)
  /\ UNCHANGED <<selectedPhoto, panels, userMedia, plays, audios, appVars>>

\* the store is constructed over a fresh slot, no photo is open
RecordingInit ==
  /\ audioAssociations = <<>>
  /\ localStorage = AbsentSlot
  /\ disk = <<>>
  /\ tasks = <<>>
  /\ now = 1
  /\ phase = "ready"
  /\ calls = 0
  /\ restarts = 0
  /\ last = Done("load", <<>>, <<>>, <<>>)
  /\ appended = FreshLog
  /\ PanelIdle
  /\ AppIdle

RecordingNext ==
  \/ Tick
  \/ \E p \in PhotoIds : DetailShown(p)
  \/ GoBack
  \/ StartRecording
  \/ \E j \in 1..Len(userMedia) : UserMediaResolves(j)
  \/ \E j \in 1..Len(userMedia) : UserMediaRejects(j)
  \/ \E k \in 1..Len(panels) : RecordingSecond(k)
  \/ StopRecording
  \/ \E r \in 1..Len(recorders) : RecorderStopped(r)
  \/ \E r \in 1..Len(recorders), rnd \in RandomSuffixes : ReaderLoadEnd(r, rnd)
  \/ \E i \in 1..Len(tasks) : MainSaveRecording(i)
  \/ \E i \in 1..Len(tasks) : SaveRecordingResume(i)
  \/ \E i \in 1..Len(tasks) : StoreFails(i)

SpecRecording == RecordingInit /\ [][RecordingNext]_vars

(* --------------------- the helper and the photo browser ---------------- *)
UpperCase == "ABCDEFGHIJKLMNOPQRSTUVWXYZ"
LowerCase == "abcdefghijklmnopqrstuvwxyz"

RECURSIVE ToLowerCase(_)
\* String.prototype.toLowerCase, on TLA+ strings
ToLowerCase(str) ==
  IF str = "" THEN ""
  ELSE LET c == SubSeq(str, 1, 1)
           lc == IF \E i \in 1..26 : SubSeq(UpperCase, i, i) = c
                 THEN LET i == CHOOSE i \in 1..26 : SubSeq(UpperCase, i, i) = c
                      IN SubSeq(LowerCase, i, i)
                 ELSE c
       IN lc \o ToLowerCase(SubSeq(str, 2, Len(str)))

\* String.prototype.includes
Includes(str, sub) ==
  \E i \in 1..(Len(str) - Len(sub) + 1) : SubSeq(str, i, i + Len(sub) - 1) = sub

\* the Photos library of the machine: two photos, one album holding the
\* first of them
A1 == <<"A", "1">>
LibraryAlbums == <<A1>>
LibraryPhotos == <<P1, P2>>
AlbumPhotos(albumId) == IF albumId = A1 THEN <<P1>> ELSE <<>>
InLibrary(photoId) == \E j \in 1..Len(LibraryPhotos) : LibraryPhotos[j] = photoId

\* PHPhotoLibrary.authorizationStatus(for: .readWrite)
AuthStatuses == {"authorized", "limited", "notDetermined", "denied", "restricted"}

\* checkAuthorization(): answer is the status the user's reply to the
\* system prompt gives when the status was notDetermined
CheckAuthorization(status, answer) ==
  CASE status \in {"authorized", "limited"} -> TRUE
    [] status = "notDetermined" -> answer \in {"authorized", "limited"}
    [] OTHER -> FALSE

\* what a helper run printed, as JSON.parse reads it: t is the kind of
\* document ("text": not JSON), error its error property ("" when it has
\* none), data the ids of the albums or photos it carries
NoOutput == [t |-> "text", error |-> "", data |-> <<>>]

\* outputError(message); exit(1)
HelperFails(message) ==
  [stdout |-> [t |-> "object", error |-> message, data |-> <<>>], code |-> 1]

\* outputJSON(value) or print of a JSON string, then the end of main
HelperPrints(t, data) ==
  [stdout |-> [t |-> t, error |-> "", data |-> data], code |-> 0]

MsgAlbumsDenied ==
  "Photos access not authorized. Please grant access in System Preferences > Privacy & Security > Photos."
MsgDenied == "Photos access not authorized"

\* main.swift: the commands the switch has a case for
HelperCommands == {"list-albums", "list-photos", "get-photo", "get-thumbnail"}

\* main.swift: the switch over the command and the function it calls;
\* imageOk: requestImage and imageToBase64 gave an image
HelperRun(command, argv, granted, imageOk) ==
  CASE command = "list-albums" ->
         IF ~granted THEN HelperFails(MsgAlbumsDenied)
         ELSE HelperPrints("array", LibraryAlbums)
    [] command = "list-photos" ->
         IF ~granted THEN HelperFails(MsgDenied)
         ELSE IF argv # <<>> /\ argv[1] # A1 THEN HelperFails("Album not found")
         ELSE HelperPrints("array", IF argv = <<>> THEN LibraryPhotos ELSE AlbumPhotos(argv[1]))
    [] command = "get-photo" ->
         IF argv = <<>> THEN HelperFails("Photo ID required")
         ELSE IF ~granted THEN HelperFails(MsgDenied)
         ELSE IF ~InLibrary(argv[1]) THEN HelperFails("Photo not found")
         ELSE IF ~imageOk THEN HelperFails("Failed to load image")
         ELSE HelperPrints("object", <<argv[1]>>)
    [] command = "get-thumbnail" ->
         IF argv = <<>> THEN HelperFails("Photo ID required")
         ELSE IF ~granted THEN HelperFails(MsgDenied)
         ELSE IF ~InLibrary(argv[1]) THEN HelperFails("Photo not found")
         ELSE IF ~imageOk THEN HelperFails("Failed to load thumbnail")
         ELSE HelperPrints("string", <<argv[1]>>)
    [] OTHER -> HelperFails("Unknown command: " \o command)

MsgHelperNotFound ==
  "Helper not found at /r/PhotoSpeakHelper. Build it first with: cd swift-helper && swift build -c release"

\* mutant: the close handler rejects with stderr before looking at stdout
RunHelperCloseStderrFirst(stdout, stderr, code) ==
  IF code = 0
  THEN [ok |-> TRUE, data |-> stdout.data, message |-> ""]
  ELSE [ok |-> FALSE, data |-> <<>>,
        message |-> IF stderr # "" THEN stderr
                    ELSE IF stdout.error # "" THEN stdout.error
                    ELSE "Helper exited with code " \o ToString(code)]

\* runHelper: proc.on('close'): resolve with the parsed (or raw) output on
\* code 0, otherwise reject with the error of the JSON on stdout, else
\* with stderr, else with the exit code
RunHelperClose(stdout, stderr, code) ==
  IF code = 0
  THEN [ok |-> TRUE, data |-> stdout.data, message |-> ""]
  ELSE [ok |-> FALSE, data |-> <<>>,
        message |-> IF stdout.t = "object" /\ stdout.error # "" THEN stdout.error
                    ELSE IF stderr # "" THEN stderr
                    ELSE "Helper exited with code " \o ToString(code)]

RECURSIVE Join(_, _)
\* Array.prototype.join
Join(items, sep) ==
  IF items = <<>> THEN <<>>
  ELSE IF Len(items) = 1 THEN items[1]
  ELSE items[1] \o sep \o Join(Tail(items), sep)

\* a JavaScript array of strings
Arr(items) == [t |-> "arr", s |-> items, n |-> 0]

\* the command and arguments the handler of a photos:* channel gives to
\* runHelper; arg is the argument the bridge forwarded
HelperCommand(channel, arg) ==
  CASE channel = "photos:getAlbums" -> [command |-> "list-albums", argv |-> <<>>]
    [] channel = "photos:getPhotos" ->
         [command |-> "list-photos", argv |-> IF Truthy(arg) THEN <<arg.s>> ELSE <<>>]
    [] channel = "photos:getPhotosMeta" ->
         [command |-> "list-photos-meta", argv |-> IF Truthy(arg) THEN <<arg.s>> ELSE <<>>]
    [] channel = "photos:getThumbnails" ->
         [command |-> "get-thumbnails", argv |-> <<Join(arg.s, <<",">>)>>]
    [] channel = "photos:getPhoto" -> [command |-> "get-photo", argv |-> <<TemplateStr(arg)>>]
    [] channel = "photos:getThumbnail" ->
         [command |-> "get-thumbnail", argv |-> <<TemplateStr(arg)>>]

\* the message of the Error ipcRenderer.invoke rejects with when the
\* handler threw
InvokeError(channel, message) ==
  "Error invoking remote method '" \o channel \o "': Error: " \o message

\* the n-th photos:* call from the renderer; caller "onMounted": awaited
\* by App.vue's onMounted; exited: its helper process ran to its exit, and
\* granted: checkAuthorization() was true in that run
NewRequest(channel, arg, caller, n) ==
  [channel |-> channel, arg |-> arg, caller |-> caller, pc |-> "invoked", seq |-> n,
   command |-> "", argv |-> <<>>, exited |-> FALSE, granted |-> FALSE,
   stdout |-> NoOutput, stderr |-> "", code |-> 0,
   settled |-> [ok |-> FALSE, data |-> <<>>, message |-> ""]]

\* App.vue: isPermissionError
IsPermissionError(error) ==
  IF error = "" THEN FALSE
  ELSE LET msg == ToLowerCase(error)
       IN \/ Includes(msg, "not authorized")
          \/ Includes(msg, "access denied")
          \/ Includes(msg, "permission")

\* App.vue template: what the main content area shows
AppView ==
  IF app.loading THEN "loading"
  ELSE IF IsPermissionError(app.error) THEN "PermissionError"
  ELSE IF app.error # "" THEN "error"
  ELSE IF selectedPhoto # Null \/ app.loadingDetail THEN "PhotoDetail"
  ELSE "PhotoGrid"

\* what a store function hands to its caller once the call it awaited has
\* settled: loadAlbums, loadPhotos and selectPhoto catch the rejection,
\* log it and return, so thrown is "" for every reply
StoreCatches(reply) == [data |-> IF reply.ok THEN reply.data ELSE <<>>, thrown |-> ""]

\* a photos:* call is sent through the bridge
Invoke(channel, arg, caller) ==
  requests' = Append(requests, NewRequest(channel, arg, caller, app.started + 1))

\* onMounted up to its first await: loadAlbums() up to its await
OnMounted ==
  /\ app.pc = "created"
  /\ Invoke("photos:getAlbums", Undefined, "onMounted")
  /\ app' = [app EXCEPT !.pc = "loadAlbums", !.started = @ + 1]
  /\ UNCHANGED <<system, webRequests, storeVars, panelVars>>

\* the main process handles a photos:* call: runHelper up to spawn
MainRunHelper(i) ==
  /\ i \in 1..Len(requests)
  /\ requests[i].pc = "invoked"
  /\ LET run == HelperCommand(requests[i].channel, requests[i].arg)
     IN requests' = [requests EXCEPT ![i] =
          IF ~system.helperBuilt
          THEN [@ EXCEPT !.pc = "settled",
                         !.settled = [ok |-> FALSE, data |-> <<>>,
                                      message |-> MsgHelperNotFound]]
          ELSE [@ EXCEPT !.pc = "spawned", !.command = run.command, !.argv = run.argv]]
  /\ UNCHANGED <<app, system, webRequests, storeVars, panelVars>>

\* the helper process runs and exits; answer: the user's reply to the
\* authorization prompt, asked when the status is notDetermined; stderr:
\* what the system logged for the process
HelperExits(i, answer, imageOk, stderr) ==
  /\ i \in 1..Len(requests)
  /\ requests[i].pc = "spawned"
  /\ LET checks == /\ requests[i].command \in HelperCommands
                   /\ ~(requests[i].command \in {"get-photo", "get-thumbnail"}
                          /\ requests[i].argv = <<>>)
         granted == CheckAuthorization(system.auth, answer)
         run == HelperRun(requests[i].command, requests[i].argv, granted, imageOk)
     IN /\ requests' = [requests EXCEPT ![i] =
             [@ EXCEPT !.pc = "exited", !.exited = TRUE, !.granted = granted,
                       !.stdout = run.stdout, !.stderr = stderr, !.code = run.code]]
        /\ system' = IF checks /\ system.auth = "notDetermined"
                      THEN [system EXCEPT !.auth = answer]
                      ELSE system
  /\ UNCHANGED <<app, webRequests, storeVars, panelVars>>

\* spawn fails (proc.on('error')): runHelper rejects with that error
SpawnFails(i) ==
  /\ i \in 1..Len(requests)
  /\ requests[i].pc = "spawned"
  /\ requests' = [requests EXCEPT ![i] =
       [@ EXCEPT !.pc = "settled", !.code = 126,
                 !.settled = [ok |-> FALSE, data |-> <<>>, message |-> "spawn EACCES"]]]
  /\ UNCHANGED <<app, system, webRequests, storeVars, panelVars>>

\* runHelper: proc.on('close')
MainHelperClosed(i) ==
  /\ i \in 1..Len(requests)
  /\ requests[i].pc = "exited"
  /\ requests' = [requests EXCEPT ![i] =
       [@ EXCEPT !.pc = "settled",
                 !.settled = RunHelperClose(requests[i].stdout, requests[i].stderr,
                                            requests[i].code)]]
  /\ UNCHANGED <<app, system, webRequests, storeVars, panelVars>>

\* the reply ipcRenderer.invoke gives for a settled call
InvokeReply(req) ==
  IF req.settled.ok THEN req.settled
  ELSE [req.settled EXCEPT !.message = InvokeError(req.channel, req.settled.message)]

\* loadAlbums after getAlbums settled, then onMounted: on to loadPhotos()
\* up to its await, or into its catch and finally
LoadAlbumsResume(i) ==
  /\ i \in 1..Len(requests)
  /\ requests[i].pc = "settled" /\ requests[i].channel = "photos:getAlbums"
  /\ LET reply == InvokeReply(requests[i])
         outcome == StoreCatches(reply)
         failed == IF app.failed = "" /\ ~reply.ok THEN reply.message ELSE app.failed
     IN IF outcome.thrown # ""
        THEN /\ app' = [app EXCEPT !.albums = outcome.data, !.error = outcome.thrown,
                                   !.loading = FALSE, !.pc = "mounted", !.failed = failed]
             /\ requests' = RemoveAt(requests, i)
        ELSE /\ app' = [app EXCEPT !.albums = outcome.data, !.pc = "loadPhotos",
                                   !.loadingPhotos = TRUE, !.selectedAlbumId = Null,
                                   !.started = @ + 1, !.failed = failed,
                                   !.lastLoad = app.started + 1]
             /\ requests' = Append(RemoveAt(requests, i),
                   NewRequest("photos:getPhotos", Undefined, "onMounted", app.started + 1))
  /\ UNCHANGED <<system, webRequests, storeVars, panelVars>>

\* loadPhotos after getPhotos settled; when onMounted awaited it, its
\* catch and finally
LoadPhotosResume(i) ==
  /\ i \in 1..Len(requests)
  /\ requests[i].pc = "settled" /\ requests[i].channel = "photos:getPhotos"
  /\ LET reply == InvokeReply(requests[i])
         outcome == StoreCatches(reply)
     IN app' = IF requests[i].caller = "onMounted"
               THEN [app EXCEPT !.photos = outcome.data, !.loadingPhotos = FALSE,
                                !.error = outcome.thrown, !.loading = FALSE,
                                !.pc = "mounted", !.photosFor = requests[i].arg,
                                !.failed = IF @ = "" /\ ~reply.ok THEN reply.message ELSE @]
               ELSE [app EXCEPT !.photos = outcome.data, !.loadingPhotos = FALSE,
                                !.photosFor = requests[i].arg]
  /\ requests' = RemoveAt(requests, i)
  /\ UNCHANGED <<system, webRequests, storeVars, panelVars>>

\* AlbumList: selectAlbum(albumId): loadPhotos up to its await, then
\* clearSelection(); null is the "All Photos" button
SelectAlbum(albumId) ==
  /\ app.pc # "created"
  /\ app.started < MaxRequests
  /\ albumId = Null \/ \E j \in 1..Len(app.albums) : Str(app.albums[j]) = albumId
  /\ Invoke("photos:getPhotos", IF Truthy(albumId) THEN albumId ELSE Undefined, "user")
  /\ app' = [app EXCEPT !.loadingPhotos = TRUE, !.started = @ + 1,
                        !.selectedAlbumId = IF Truthy(albumId) THEN albumId ELSE Null,
                        !.lastLoad = app.started + 1, !.cleared = TRUE]
  /\ ClearSelection
  /\ UNCHANGED <<system, webRequests, storeVars, userMedia, plays>>

\* PhotoGrid: openPhoto(photoId): selectPhoto up to its await
OpenPhoto(photoId) ==
  /\ AppView = "PhotoGrid"
  /\ ~app.loadingPhotos
  /\ app.started < MaxRequests
  /\ \E j \in 1..Len(app.photos) : app.photos[j] = photoId
  /\ Invoke("photos:getPhoto", Str(photoId), "user")
  /\ app' = [app EXCEPT !.loadingDetail = TRUE, !.started = @ + 1, !.cleared = FALSE]
  /\ UNCHANGED <<system, webRequests, storeVars, panelVars>>

\* selectPhoto after getPhoto settled: the photo is set and the detail
\* view mounts an AudioPanel, or the catch sets no photo
SelectPhotoResume(i) ==
  /\ i \in 1..Len(requests)
  /\ requests[i].pc = "settled" /\ requests[i].channel = "photos:getPhoto"
  /\ LET outcome == StoreCatches(InvokeReply(requests[i]))
     IN IF outcome.data = <<>>
        THEN ClearSelection
        ELSE /\ selectedPhoto' = Str(outcome.data[1])
             /\ panels' = Append(panels, NewPanel)
             /\ UNCHANGED <<recorders, audios>>
  /\ app' = [app EXCEPT !.loadingDetail = FALSE]
  /\ requests' = RemoveAt(requests, i)
  /\ UNCHANGED <<system, webRequests, storeVars, userMedia, plays>>

\* window.electron.photos.getThumbnail(photoId), the bridge's call for
\* the thumbnail of one listed photo
GetThumbnail(photoId) ==
  /\ app.pc = "mounted"
  /\ app.started < MaxRequests
  /\ \E j \in 1..Len(app.photos) : app.photos[j] = photoId
  /\ Invoke("photos:getThumbnail", Str(photoId), "user")
  /\ app' = [app EXCEPT !.started = @ + 1]
  /\ UNCHANGED <<system, webRequests, storeVars, panelVars>>

\* its promise settles; nothing of the state reads the thumbnail
GetThumbnailResume(i) ==
  /\ i \in 1..Len(requests)
  /\ requests[i].pc = "settled" /\ requests[i].channel = "photos:getThumbnail"
  /\ requests' = RemoveAt(requests, i)
  /\ UNCHANGED <<app, system, webRequests, storeVars, panelVars>>

\* window.electron.photos.getPhotosMeta(albumId), the bridge's call for the
\* listing without thumbnails
GetPhotosMeta(albumId) ==
  /\ app.pc = "mounted"
  /\ app.started < MaxRequests
  /\ Invoke("photos:getPhotosMeta", albumId, "user")
  /\ app' = [app EXCEPT !.started = @ + 1]
  /\ UNCHANGED <<system, webRequests, storeVars, panelVars>>

\* window.electron.photos.getThumbnails(photoIds), the bridge's call for
\* the thumbnails of the listed photos
GetThumbnails ==
  /\ app.pc = "mounted"
  /\ app.started < MaxRequests
  /\ app.photos # <<>>
  /\ Invoke("photos:getThumbnails", Arr(app.photos), "user")
  /\ app' = [app EXCEPT !.started = @ + 1]
  /\ UNCHANGED <<system, webRequests, storeVars, panelVars>>

\* the promise of one of these two calls settles; nothing of the state
\* reads what it gives
DirectCallResume(i) ==
  /\ i \in 1..Len(requests)
  /\ requests[i].pc = "settled"
  /\ requests[i].channel \in {"photos:getPhotosMeta", "photos:getThumbnails"}
  /\ requests' = RemoveAt(requests, i)
  /\ UNCHANGED <<app, system, webRequests, storeVars, panelVars>>

\* the user changes the access of the application in System Settings
AccessChanged(status) ==
  /\ system.auth \in {"authorized", "limited", "denied"}
  /\ status # system.auth
  /\ app.pc = "mounted"
  /\ system' = [system EXCEPT !.auth = status]
  /\ UNCHANGED <<app, requests, webRequests, storeVars, panelVars>>

\* the application starts on a machine in any authorization status, with
\* the helper built or not; the store is constructed over a fresh slot
AppInit ==
  /\ audioAssociations = <<>>
  /\ localStorage = AbsentSlot
  /\ disk = <<>>
  /\ tasks = <<>>
  /\ now = 1
  /\ phase = "ready"
  /\ calls = 0
  /\ restarts = 0
  /\ last = Done("load", <<>>, <<>>, <<>>)
  /\ appended = FreshLog
  /\ PanelIdle
  /\ app = AppCreated
  /\ requests = <<>>
  /\ system \in [auth : AuthStatuses, helperBuilt : BOOLEAN]
  /\ webRequests = <<>>

AppNext ==
  \/ OnMounted
  \/ \E i \in 1..Len(requests) : MainRunHelper(i)
  \/ \E i \in 1..Len(requests), answer \in {"authorized", "denied"},
        imageOk \in BOOLEAN, stderr \in {"", "CoreData: warning"} :
        HelperExits(i, answer, imageOk, stderr)
  \/ \E i \in 1..Len(requests) : SpawnFails(i)
  \/ \E i \in 1..Len(requests) : MainHelperClosed(i)
  \/ \E i \in 1..Len(requests) : LoadAlbumsResume(i)
  \/ \E i \in 1..Len(requests) : LoadPhotosResume(i)
  \/ \E a \in {Null, Str(A1)} : SelectAlbum(a)
  \/ \E p \in PhotoIds : OpenPhoto(p)
  \/ \E i \in 1..Len(requests) : SelectPhotoResume(i)
  \/ \E p \in PhotoIds : GetThumbnail(p)
  \/ \E i \in 1..Len(requests) : GetThumbnailResume(i)
  \/ \E a \in {Undefined, Str(A1)} : GetPhotosMeta(a)
  \/ GetThumbnails
  \/ \E i \in 1..Len(requests) : DirectCallResume(i)
  \/ \E status \in {"authorized", "denied"} : AccessChanged(status)

SpecApp == AppInit /\ [][AppNext]_vars

(* ------------- the blob handlers over more photo ids and files --------- *)
\* photo ids as PhotoKit gives them: local identifiers with '/' separators
P3 == <<"U", "/", "L", "0", "/", "1">>
P4 == <<"/", "x", "/">>
BlobPhotoIds == PhotoIds \cup {P3, P4}

\* files the picker can return, each with the extension path.extname
\* documents for it: the last '.' of the base name on, '' when the base
\* name has none or only a leading one
BlobSources ==
  { [path |-> SrcA, ext |-> <<".", "m", "4", "a">>],
    [path |-> <<"/", "t", ".", "d", "/", "m", "e", "m", "o">>, ext |-> <<>>],
    [path |-> <<"/", "t", "/", ".", "r", "c">>, ext |-> <<>>],
    [path |-> <<"/", "t", "/", "b", ".", "x", ".", "g", "z">>, ext |-> <<".", "g", "z">>] }

\* fresh install, as Init
BlobInit == Init /\ localStorage = AbsentSlot

\* attachAudio and saveRecording calls up to the answer of the main process
BlobNext ==
  \/ Tick
  \/ LoadAssociations
  \/ \E p \in BlobPhotoIds : AttachAudio(p)
  \/ \E i \in 1..Len(tasks), src \in BlobSources, rnd \in RandomSuffixes :
        SelectFileReply(i, Str(src.path), rnd)
  \/ \E i \in 1..Len(tasks) : MainCopyToStorage(i)
  \/ \E p \in BlobPhotoIds, take \in Takes, rnd \in RandomSuffixes :
        SaveRecording(p, take.bytes, take.duration, rnd)
  \/ \E i \in 1..Len(tasks) : MainSaveRecording(i)

SpecBlob == BlobInit /\ [][BlobNext]_vars

(* ------------------- the window's request filter ----------------------- *)
\* String.prototype.startsWith
StartsWith(str, prefix) ==
  Len(prefix) <= Len(str) /\ SubSeq(str, 1, Len(prefix)) = prefix

\* what the renderer can ask for: scheme, user information, host, port
UrlSchemes == {"http", "https", "ws"}
UrlUsers == {"", "localhost@"}
UrlHosts == {"localhost", "127.0.0.1", "localhost.evil.com", "evil.com"}
UrlPorts == {"", ":5173"}

\* the URL of a request as details.url gives it
MakeUrl(scheme, user, host, port) == scheme \o "://" \o user \o host \o port \o "/"

\* the filter { urls: ['http://*/*', 'https://*/*'] }: the listener is
\* called for the URLs that match one of the patterns
FilterMatches(url) == StartsWith(url, "http://") \/ StartsWith(url, "https://")

\* the listener of onBeforeRequest: TRUE when it answers { cancel: true }
ListenerCancels(url) ==
  ~(StartsWith(url, "http://localhost") \/ StartsWith(url, "http://127.0.0.1"))

\* whether the session cancels a request: a request the filter does not
\* match never reaches the listener and goes on
RequestCancelled(url) == FilterMatches(url) /\ ListenerCancels(url)

\* the page makes a request to host; host is history: the machine the
\* request goes to
WebRequest(scheme, user, host, port) ==
  /\ Len(webRequests) < MaxWebRequests
  /\ LET url == MakeUrl(scheme, user, host, port)
     IN webRequests' = Append(webRequests,
          [url |-> url, host |-> host, cancelled |-> RequestCancelled(url)])
  /\ UNCHANGED <<app, requests, system, storeVars, panelVars>>

\* the window has been created over a constructed store
FilterInit == RecordingInit

FilterNext ==
  \E scheme \in UrlSchemes, user \in UrlUsers, host \in UrlHosts, port \in UrlPorts :
     WebRequest(scheme, user, host, port)

SpecFilter == FilterInit /\ [][FilterNext]_vars


(* ------------------------- reading the state --------------------------- *)
\* the five properties of a clip as code reading them sees them
ClipView(c) ==
  [id |-> Field(c, "id"), photoId |-> Field(c, "photoId"),
   audioPath |-> Field(c, "audioPath"), createdAt |-> Field(c, "createdAt"),
   duration |-> Field(c, "duration")]

\* the Map as keys and clips in order
IndexView(m) ==
  [i \in 1..Len(m) |->
     [key |-> m[i].key, clips |-> [j \in 1..Len(m[i].clips) |-> ClipView(m[i].clips[j])]]]

\* the document in the slot read as keys and clips in order
DocumentView(slot) ==
  [i \in 1..Len(slot.entries) |->
     [key |-> slot.entries[i].key,
      clips |-> [j \in 1..Len(slot.entries[i].items) |->
                   ClipView(slot.entries[i].items[j])]]]

\* what the slot decodes to: no item and an unparsable item give no entries
DecodedView(slot) == IF slot.kind = "doc" THEN DocumentView(slot) ELSE <<>>

\* the slot holds a document in the current layout: every value an array
CurrentLayout(slot) ==
  slot.kind = "doc" /\ \A i \in 1..Len(slot.entries) : slot.entries[i].arr

\* positions of the clips in the Map
ClipPositions(m) == UNION {{<<i, j>> : j \in 1..Len(m[i].clips)} : i \in 1..Len(m)}

ClipAt(m, pos) == m[pos[1]].clips[pos[2]]

\* the last operation was a removeAudio that found photoId in the Map
RemovedFromEntry == last.op = "remove" /\ MapHas(last.before, last.photoId)

\* ... and some clip of that photo had the clipId
RemoveMatched ==
  /\ RemovedFromEntry
  /\ \E j \in 1..Len(MapGet(last.before, last.photoId)) :
       Field(MapGet(last.before, last.photoId)[j], "id") = Str(last.clipId)

(* ------------------------------- claims -------------------------------- *)
\* C1: after every operation, every clip stored in the list under key K has
\* photoId equal to K.
C1_PhotoIdMatchesKey ==
  \A i \in 1..Len(audioAssociations) : \A j \in 1..Len(audioAssociations[i].clips) :
    Field(audioAssociations[i].clips[j], "photoId") = Str(audioAssociations[i].key)

\* C1 witness: a recording has just been added while both photos have clips
C1_Witness ==
  /\ last.op = "record"
  /\ MapHas(audioAssociations, P1) /\ MapHas(audioAssociations, P2)

\* C2 (as claimed): no two clips anywhere in the Map share an id, also when
\* both were created within the same millisecond.
C2_UniqueClipIds ==
  \A a \in ClipPositions(audioAssociations), b \in ClipPositions(audioAssociations) :
    a # b => Field(ClipAt(audioAssociations, a), "id") # Field(ClipAt(audioAssociations, b), "id")

\* C3: in every state of the store no photoId key is present with an empty
\* clip list.
C3_NoEmptyList ==
  \A i \in 1..Len(audioAssociations) : Len(audioAssociations[i].clips) > 0

\* C3 witness: removeAudio has just taken the only clip of a photo out of a
\* Map that still holds another photo
C3_Witness ==
  /\ RemoveMatched
  /\ Len(MapGet(last.before, last.photoId)) = 1
  /\ Len(last.before) = 2
  /\ Len(audioAssociations) = 1

\* C4: after each attachAudio that was not cancelled, each saveRecording
\* and each removeAudio, the slot reads back as exactly the Map (same keys,
\* same clips, same order), and when the call changed or rewrote an entry
\* the slot holds a whole document in the current layout.  (removeAudio on
\* a photo without an entry mutates nothing and writes nothing.)
C4_SlotMirrorsMap ==
  /\ last.op \in {"attach", "record", "remove"} =>
       DecodedView(localStorage) = IndexView(audioAssociations)
  /\ (last.op \in {"attach", "record"} \/ RemovedFromEntry) =>
       CurrentLayout(localStorage)

\* C4 witness: a removeAudio has just rewritten a document that still holds
\* a clip
C4_Witness ==
  /\ RemoveMatched
  /\ Len(audioAssociations) >= 1
  /\ localStorage.kind = "doc" /\ Len(localStorage.entries) >= 1

\* C5: after a restart, the Map loadAssociations builds equals the Map at
\* exit: same keys, every photo's clips in the same order with the same
\* ids, paths and durations.
C5_RestartKeepsMap ==
  last.op = "reload" => IndexView(audioAssociations) = IndexView(last.before)

\* C5 witness: the store has been reloaded with two clips, one of them
\* saved without a duration
C5_Witness ==
  /\ last.op = "reload"
  /\ ClipCount(audioAssociations) = 2
  /\ \E pos \in ClipPositions(last.before) :
       /\ HasField(ClipAt(last.before, pos), "duration")
       /\ Field(ClipAt(last.before, pos), "duration") = Undefined

\* C6: loading a document with a legacy entry yields a one-clip list for
\* that photo with a non-empty id and the legacy properties, and rewrites
\* the slot in the current layout; a later launch finds no legacy entry and
\* loads the same clip ids.
C6_MigrationStable ==
  /\ last.op \in {"load", "reload"} =>
       \A i \in 1..Len(last.found.entries) :
         ~last.found.entries[i].arr =>
           LET clips == GetClipsFor(audioAssociations, last.found.entries[i].key)
               old == last.found.entries[i].items[1]
           IN /\ Len(clips) = 1
              /\ Truthy(Field(clips[1], "id"))
              /\ \A k \in {"photoId", "audioPath", "createdAt", "duration"} :
                   Field(clips[1], k) = Field(old, k)
              /\ CurrentLayout(localStorage)
  /\ last.op = "reload" =>
       /\ last.found.kind = "doc" => CurrentLayout(last.found)
       /\ \A i \in 1..Len(audioAssociations) :
            /\ i <= Len(last.before)
            /\ Len(audioAssociations[i].clips) = Len(last.before[i].clips)
            /\ \A j \in 1..Len(audioAssociations[i].clips) :
                 Field(audioAssociations[i].clips[j], "id")
                   = Field(last.before[i].clips[j], "id")

\* C6 witness: the launch after the migrating one has loaded the migrated
\* clip
C6_Witness ==
  /\ last.op = "reload"
  /\ \E pos \in ClipPositions(audioAssociations) :
       LET id == Field(ClipAt(audioAssociations, pos), "id").s
       IN Len(id) > 8 /\ SubSeq(id, 1, 8) = <<"m", "i", "g", "r", "a", "t", "e", "d">>

\* C7: after n completed saveRecording / attachAudio calls for a photo that
\* had no clips, the photo's list holds exactly n clips in the order the
\* calls completed (call order for sequential calls), a saveRecording clip
\* with its durationSecs, an attachAudio clip without a duration.
C7_AppendsInOrder ==
  \A p \in PhotoIds :
    appended[p].ok =>
      LET clips == GetClipsFor(audioAssociations, p)
          log == appended[p].calls
      IN /\ Len(clips) = Len(log)
         /\ \A i \in 1..Len(log) :
              /\ i <= Len(clips)
              /\ Field(clips[i], "id") = Str(log[i].clipId)
              /\ Field(clips[i], "duration") = log[i].duration
              /\ log[i].kind = "attach" => ~HasField(clips[i], "duration")

\* C7 witness: a recording of 5 s and then an attached file on the same
\* photo
C7_Witness ==
  \E p \in PhotoIds :
    /\ appended[p].ok
    /\ Len(appended[p].calls) = 2
    /\ appended[p].calls[1].duration = Num(5)
    /\ appended[p].calls[2].kind = "attach"

\* C8: removeAudio that removes the only remaining clip of a photo removes
\* the photo's key from the Map and from the stored document, and the
\* photo's clips then read as the empty list.
C8_LastClipRemovesKey ==
  (RemoveMatched /\ Len(MapGet(last.before, last.photoId)) = 1) =>
    /\ ~MapHas(audioAssociations, last.photoId)
    /\ CurrentLayout(localStorage)
    /\ \A i \in 1..Len(localStorage.entries) : localStorage.entries[i].key # last.photoId
    /\ GetClipsFor(audioAssociations, last.photoId) = <<>>

\* C8 witness: the only clip of the only photo has just been removed
C8_Witness ==
  /\ RemoveMatched
  /\ Len(MapGet(last.before, last.photoId)) = 1
  /\ Len(last.before) = 1
  /\ localStorage.kind = "doc" /\ localStorage.entries = <<>>

\* C9: removeAudio leaves the Map as it was when the photoId has no entry
\* or no clip of the photo has the clipId.
C9_RemoveMissingIsNoOp ==
  (last.op = "remove" /\ ~RemoveMatched) => audioAssociations = last.before

\* C9 witness: removeAudio on a photo with two clips, given an id neither has
C9_Witness ==
  /\ RemovedFromEntry /\ ~RemoveMatched
  /\ Len(MapGet(last.before, last.photoId)) = 2

\* C10 (as claimed): any two distinct clips in the Map have different
\* audioPath values.
C10_DistinctAudioPaths ==
  \A a \in ClipPositions(audioAssociations), b \in ClipPositions(audioAssociations) :
    a # b => Field(ClipAt(audioAssociations, a), "audioPath")
               # Field(ClipAt(audioAssociations, b), "audioPath")

(* C11: in every state, every clip in the index has an audioPath at which
   the main process holds a stored file *)
C11_ClipFilesExist ==
  \A pos \in ClipPositions(audioAssociations) :
     Field(ClipAt(audioAssociations, pos), "audioPath").s \in DOMAIN disk

\* an attach or a recording completed and the index holds two clips, each
\* with its file on disk
C11_Witness ==
  /\ last.op \in {"attach", "record"}
  /\ ClipCount(audioAssociations) = 2
  /\ \A pos \in ClipPositions(audioAssociations) :
        Field(ClipAt(audioAssociations, pos), "audioPath").s \in DOMAIN disk

(* C12: a load that finds an unparsable item completes (nothing is raised)
   and leaves the index empty *)
C12_CorruptLoadsEmpty ==
  (last.op \in {"load", "reload"} /\ last.found.kind = "corrupt") =>
     (phase = "ready" /\ audioAssociations = <<>>)

\* the store was constructed over an unparsable item
C12_Witness ==
  /\ last.op = "load"
  /\ last.found = CorruptSlot
  /\ phase = "ready"
  /\ audioAssociations = <<>>

\* the step in which an attachAudio call returns null
AttachCancelledStep ==
  /\ last'.op = "attachCancelled"
  /\ Len(tasks') < Len(tasks)

(* C13: an attachAudio call whose picker yields no file returns without
   going on to store anything, and the step in which it returns leaves the
   index, the slot and the stored files unchanged *)
C13_CancelledAttachChangesNothing ==
  /\ [](\A i \in 1..Len(tasks) :
          (tasks[i].kind = "attach" /\ tasks[i].pc # "selectFile") =>
             tasks[i].bytes # <<>>)
  /\ [][AttachCancelledStep =>
          UNCHANGED <<audioAssociations, localStorage, disk>>]_vars

\* an attachAudio call was cancelled while the index held a clip and the
\* slot a document
C13_Witness ==
  /\ last.op = "attachCancelled"
  /\ ClipCount(audioAssociations) >= 1
  /\ localStorage.kind = "doc"
  /\ audioAssociations = last.before

\* the path names a file directly inside the audio directory
DirectChildOfAudioDir(path) ==
  LET n == Len(AudioDir) + 1
  IN /\ Len(path) > n
     /\ SubSeq(path, 1, n) = AudioDir \o <<"/">>
     /\ \A i \in (n + 1)..Len(path) : path[i] # "/"

EndsWith(str, suffix) ==
  /\ Len(suffix) <= Len(str)
  /\ SubSeq(str, Len(str) - Len(suffix) + 1, Len(str)) = suffix

\* the file name starts with the photo id, every '/' of it given as '_'
NameStartsWithPhotoId(path, photoId) ==
  LET n == Len(AudioDir) + 1
  IN /\ Len(path) >= n + Len(photoId)
     /\ \A k \in 1..Len(photoId) :
          path[n + k] = IF photoId[k] = "/" THEN "_" ELSE photoId[k]

\* the extension documented for a source file
SourceExt(path) == (CHOOSE src \in BlobSources : src.path = path).ext

(* C14: the destination the main process answers with is a direct child
   of the audio directory, its name starts with the photo id with every
   '/' replaced, a copy keeps the extension of its source file and a
   recording ends in .webm *)
C14_DestInsideAudioDir ==
  \A i \in 1..Len(tasks) :
     tasks[i].pc = "resume" =>
        /\ DirectChildOfAudioDir(tasks[i].storedPath)
        /\ NameStartsWithPhotoId(tasks[i].storedPath, tasks[i].photoId)
        /\ tasks[i].kind = "attach" =>
             EndsWith(tasks[i].storedPath, SourceExt(tasks[i].bytes))
        /\ tasks[i].kind = "record" => EndsWith(tasks[i].storedPath, WebmExt)

\* a copy for a photo id with two '/' and a source with an extension, and
\* a recording for such an id, have been answered
C14_Witness ==
  /\ \E i \in 1..Len(tasks) :
        /\ tasks[i].pc = "resume" /\ tasks[i].kind = "attach"
        /\ tasks[i].photoId = P3
        /\ SourceExt(tasks[i].bytes) # <<>>
  /\ \E i \in 1..Len(tasks) :
        /\ tasks[i].pc = "resume" /\ tasks[i].kind = "record"
        /\ tasks[i].photoId = P4

\* the format tag of a data URL: what stands between "data:audio/" and ';'
FormatTag(url) ==
  LET from == Len(DataAudio) + 1
      semi == CHOOSE i \in from..Len(url) :
                 url[i] = ";" /\ \A j \in from..(i - 1) : url[j] # ";"
  IN SubSeq(url, from, semi - 1)

\* the extension each stored file of PlaybackIndex was given, without its
\* dot; none for the copy of the file that had none
StoredExtension(audioPath) ==
  IF audioPath = CopyToStorageDest(<<Str(SrcA), Str(P1)>>) THEN <<"m", "4", "a">>
  ELSE IF audioPath = SaveRecordingDest(<<Str(P1), Str(<<"r", "1">>)>>)
       THEN <<"w", "e", "b", "m">>
       ELSE <<>>

\* the step in which a playClip call returns because it got no source
NoSourceReturn ==
  \E i \in 1..Len(plays) :
     /\ plays[i].pc = "loaded"
     /\ plays[i].src = Null
     /\ plays' = RemoveAt(plays, i)

(* C15: audio:loadFile answers null when the file is missing or cannot be
   read, and otherwise a data URL whose format tag is the extension of the
   file, webm when it has none; a playClip call that gets null returns
   without creating or starting an Audio element and without touching
   audioRef or playingClipId *)
C15_LoadFileNullOrTagged ==
  /\ [](\A i \in 1..Len(plays) :
          plays[i].pc = "loaded" =>
             /\ plays[i].read = "failed" => plays[i].src = Null
             /\ plays[i].read = "ok" =>
                  /\ plays[i].src.t = "str"
                  /\ SubSeq(plays[i].src.s, 1, Len(DataAudio)) = DataAudio
                  /\ FormatTag(plays[i].src.s) =
                       IF StoredExtension(plays[i].audioPath) = <<>>
                       THEN <<"w", "e", "b", "m">>
                       ELSE StoredExtension(plays[i].audioPath))
  /\ [][NoSourceReturn =>
          /\ audios' = audios
          /\ \A k \in 1..Len(panels) :
               /\ panels'[k].audioRef = panels[k].audioRef
               /\ panels'[k].playingClipId = panels[k].playingClipId
               /\ panels'[k].audioSources = panels[k].audioSources]_vars

\* a playClip call for a clip whose file is gone has returned, while the
\* clip without extension has been loaded and started
C15_Witness ==
  /\ panels[1].lastPlay = "noSource"
  /\ \E a \in 1..Len(audios) :
        /\ audios[a].clipId = ClipId(1, <<"k">>)
        /\ FormatTag(audios[a].src) = <<"w", "e", "b", "m">>

(* C16: once onMounted has ended after a loadAlbums or loadPhotos call of
   it was rejected, the error ref is set, and the main area shows the
   grant-access screen when the message of the failure is an authorization
   message, the generic error view otherwise *)
C16_StartupFailureShown ==
  (app.pc = "mounted" /\ app.failed # "") =>
     /\ app.error # ""
     /\ AppView = IF IsPermissionError(app.failed) THEN "PermissionError" ELSE "error"

(* C17: no two saveRecording calls of the store for the same photo are in
   flight at once: a second one starts only after the first has persisted *)
C17_NoOverlappingSaves ==
  \A i, j \in 1..Len(tasks) :
     (i # j /\ tasks[i].kind = "record" /\ tasks[j].kind = "record") =>
        tasks[i].photoId # tasks[j].photoId

(* C18: no stopped recording is dropped: once its stop event has been
   handled its data is on the way to the store, by the Stop button as
   well as by the detail view closing *)
C18_StoppedRecordingKept ==
  \A r \in 1..Len(recorders) : recorders[r].state \notin {"discarded", "threw"}

\* a helper process ran to its exit without authorization
RanUnauthorized(req) == req.exited /\ ~req.granted

(* C19: a helper run without authorization prints a JSON document with an
   error and no album or photo data and exits with 1; runHelper resolves
   only for a helper that exited with 0, and for a helper that exited
   otherwise with a JSON error on stdout it rejects with that message *)
C19_HelperExitProtocol ==
  \A i \in 1..Len(requests) :
     /\ RanUnauthorized(requests[i]) =>
          /\ requests[i].code = 1
          /\ requests[i].stdout.t = "object"
          /\ requests[i].stdout.error # ""
          /\ requests[i].stdout.data = <<>>
     /\ requests[i].pc = "settled" =>
          /\ requests[i].settled.ok => (requests[i].exited /\ requests[i].code = 0)
          /\ (requests[i].exited /\ requests[i].code # 0
                /\ requests[i].stdout.t = "object" /\ requests[i].stdout.error # "") =>
               /\ ~requests[i].settled.ok
               /\ requests[i].settled.message = requests[i].stdout.error

\* get-thumbnail and get-photo have run without authorization after the
\* application had started with access; runHelper has handed on the error
\* of the first although the system logged something for that run
C19_Witness ==
  /\ \E i \in 1..Len(requests) :
        /\ requests[i].command = "get-thumbnail"
        /\ RanUnauthorized(requests[i])
        /\ requests[i].pc = "settled"
        /\ requests[i].stderr # ""
        /\ requests[i].settled.message = MsgDenied
  /\ \E i \in 1..Len(requests) :
        /\ requests[i].command = "get-photo"
        /\ RanUnauthorized(requests[i])
        /\ requests[i].pc = "settled"
  /\ app.failed = ""

\* what loading its own serialization gives for the index, serialized
RoundTrip(m, rnds) == Stringify(LoadedMap(<<>>, Stringify(m), now, rnds))

(* C20: serializing the index, loading that document and serializing the
   result gives the same document: same entries in the same order, same
   clips in the same order, same fields in the same order *)
C20_RoundTripStable ==
  \A rnds \in [1..Len(audioAssociations) -> RandomSuffixes] :
     RoundTrip(audioAssociations, rnds) = Stringify(audioAssociations)

\* after a removal the index holds clips of two photos, one of them a
\* recording whose duration is undefined and so left out of the document
C20_Witness ==
  /\ last.op = "remove"
  /\ Len(audioAssociations) = 2
  /\ \E pos \in ClipPositions(audioAssociations) :
        /\ HasField(ClipAt(audioAssociations, pos), "duration")
        /\ Field(ClipAt(audioAssociations, pos), "duration") = Undefined
  /\ \A rnds \in [1..2 -> RandomSuffixes] :
        RoundTrip(audioAssociations, rnds) = localStorage

\* the step in which call i of the store resumes after its blob was stored
\* and returns its association
CompletionStep(i) ==
  /\ tasks[i].pc = "resume"
  /\ tasks' = RemoveAt(tasks, i)
  /\ last'.op \in {"attach", "record"}
  /\ last'.clipId = tasks[i].clipId
  /\ last'.photoId = tasks[i].photoId

(* C21: a call that completes extends the list its photo has at that moment
   by its own clip, keeping every clip of that list in place and every
   other photo's list as it was; so of two calls for one photo that were
   awaiting blob storage together, the second to complete finds the clip
   of the first and keeps it *)
C21_NoLostUpdate ==
  [][\A i \in 1..Len(tasks) :
        CompletionStep(i) =>
          LET p == tasks[i].photoId
              old == GetClipsFor(audioAssociations, p)
              new == GetClipsFor(audioAssociations', p)
          IN /\ Len(new) = Len(old) + 1
             /\ SubSeq(new, 1, Len(old)) = old
             /\ Field(new[Len(new)], "id") = Str(tasks[i].clipId)
             /\ \A q \in PhotoIds \ {p} :
                  GetClipsFor(audioAssociations', q) = GetClipsFor(audioAssociations, q)]_vars

\* two recordings of one photo have completed; the second was started (its
\* id carries the earlier clock value) before the first completed, so both
\* were awaiting the main process together
C21_Witness ==
  /\ last.op = "record"
  /\ \E p \in PhotoIds :
        LET clips == GetClipsFor(audioAssociations, p)
        IN /\ Len(clips) = 2
           /\ \A j \in 1..2 : HasField(clips[j], "duration")
           /\ Field(clips[1], "createdAt") = Num(2)
           /\ SubSeq(Field(clips[2], "id").s, 1, 2) = <<"1", "-">>
           /\ Field(clips[1], "id") # Field(clips[2], "id")

(* C22: a recording handed to the store is handed over with the id of the
   photo that was selected when the recording was started, also when the
   selection was cleared or changed in between *)
C22_RecordingKeepsItsPhoto ==
  \A r \in 1..Len(recorders) :
     recorders[r].state = "saving" => recorders[r].savedFor = recorders[r].photo

(* C26: at most one MediaRecorder is recording and at most one interval
   timer is running at any time, and while isRecording is false no interval
   timer of the panel is running *)
C26_OneRecordingSession ==
  /\ Cardinality({r \in 1..Len(recorders) : recorders[r].state = "recording"}) <= 1
  /\ \A k \in 1..Len(panels) :
        /\ Cardinality(panels[k].timers) <= 1
        /\ ~panels[k].isRecording => panels[k].timers = {}

\* the Audio elements that are playing
PlayingAudios == {a \in 1..Len(audios) : audios[a].playing}

(* C23: at most one Audio element is playing, and a panel whose
   playingClipId is not null has, as its current element, the element of
   that clip, and that element is playing *)
C23_OneClipPlaying ==
  /\ Cardinality(PlayingAudios) <= 1
  /\ \A k \in 1..Len(panels) :
        panels[k].playingClipId # Null =>
          /\ panels[k].audioRef # 0
          /\ Str(audios[panels[k].audioRef].clipId) = panels[k].playingClipId
          /\ audios[panels[k].audioRef].playing

\* the hosts that are the local machine
LocalHosts == {"localhost", "127.0.0.1"}

(* C29: every request of the window to a host other than localhost or
   127.0.0.1 is cancelled *)
C29_ExternalRequestsBlocked ==
  \A i \in 1..Len(webRequests) :
     webRequests[i].host \notin LocalHosts => webRequests[i].cancelled

\* the loadPhotos calls and the selectPhoto calls that have not returned
LoadPhotosPending == {i \in 1..Len(requests) : requests[i].channel = "photos:getPhotos"}
SelectPhotoPending == {i \in 1..Len(requests) : requests[i].channel = "photos:getPhoto"}

(* C24: once no loadPhotos call is in flight, the photos list is the one
   a call for the album in selectedAlbumId received (all photos when
   selectedAlbumId is null) *)
C24_PhotosOfSelectedAlbum ==
  (app.lastLoad > 0 /\ LoadPhotosPending = {}) =>
     app.photosFor = IF app.selectedAlbumId = Null THEN Undefined ELSE app.selectedAlbumId

(* C25: while clearSelection() has run and no selectPhoto call has been
   made since, no photo is selected *)
C25_ClearedStaysCleared ==
  app.cleared => selectedPhoto = Null

(* C27: loadingPhotos is true exactly while a loadPhotos call is in flight
   and loadingDetail exactly while a selectPhoto call is in flight *)
C27_LoadingFlagsExact ==
  /\ app.loadingPhotos <=> LoadPhotosPending # {}
  /\ app.loadingDetail <=> SelectPhotoPending # {}

(* C30: every helper process started for a photos:* call was given a
   command the helper's switch has a case for, and none ended with the
   helper's 'Unknown command' error *)
C30_HelperKnowsEveryCommand ==
  \A i \in 1..Len(requests) :
     /\ requests[i].command # "" => requests[i].command \in HelperCommands
     /\ ~StartsWith(requests[i].stdout.error, "Unknown command")

\* the step of a removeAudio call that changes the Map
RemoveStep == last'.op = "remove" /\ audioAssociations' # audioAssociations

(* C28: after removeAudio(photoId, clipId) the list of photoId holds
   exactly its former clips with another id, in their former order, every
   other photo has the list it had, and the call leaves the stored files
   of the clips that remain as they were *)
C28_RemoveTouchesOnlyTarget ==
  /\ [](last.op = "remove" =>
          LET p == last.photoId
              old == GetClipsFor(last.before, p)
              new == GetClipsFor(audioAssociations, p)
              keep == {j \in 1..Len(old) : Field(old[j], "id") # Str(last.clipId)}
          IN /\ Len(new) = Cardinality(keep)
             /\ \A k \in 1..Len(new) :
                  new[k] = old[CHOOSE j \in keep : Cardinality({h \in keep : h <= j}) = k]
             /\ \A q \in PhotoIds \ {p} :
                  /\ MapHas(audioAssociations, q) <=> MapHas(last.before, q)
                  /\ GetClipsFor(audioAssociations, q) = GetClipsFor(last.before, q))
  /\ [][RemoveStep =>
          \A pos \in ClipPositions(audioAssociations') :
             LET path == Field(ClipAt(audioAssociations', pos), "audioPath").s
             IN path \in DOMAIN disk =>
                  (path \in DOMAIN disk' /\ disk'[path] = disk[path])]_vars

\* removeAudio has taken one of the two clips of a photo; the other is
\* still listed and its file is still stored
C28_Witness ==
  /\ RemoveMatched
  /\ Len(MapGet(last.before, last.photoId)) = 2
  /\ Len(GetClipsFor(audioAssociations, last.photoId)) = 1
  /\ Field(GetClipsFor(audioAssociations, last.photoId)[1], "audioPath").s \in DOMAIN disk

=============================================================================
